---------------------------- MODULE Spec2Model ----------------------------
(***************************************************************************)
(* Model of the sales-agent services: the conversation service's turn      *)
(* (router, capability node, checkpoint) with the guided demo engine, the  *)
(* browser service's page lock, the lead service's endpoints and sync      *)
(* paths, and the conversation service's accounts, tokens and the binding  *)
(* of a chat connection to a thread.                                       *)
(*                                                                         *)
(* Texts that the code inspects by substring are sequences of one-         *)
(* character strings, so `in`, lower() and strip() are computed and not    *)
(* assumed.                                                                *)
(***************************************************************************)
EXTENDS Integers, Sequences, FiniteSets, TLC

(***************************************************************************)
(* Bounds of the model.                                                    *)
(***************************************************************************)
MaxTurns == 8
MaxWsTurns == 3
MaxPending == 1
MaxRequests == 2
MaxLeads == 2
MaxSyncs == 2
MaxPatches == 2
MaxSyncPatches == 1
MaxUsers == 2
MaxClock == 26
MaxHits == 3
MaxTokens == 4

(***************************************************************************)
(* Texts.  UserTexts: what a user types; ResultTexts: results of            *)
(* _execute_demo_action; ErrorDetails: error details; FailureWords: the    *)
(* words the failure test looks for; Intents, LlmTexts: answers of the     *)
(* classifier.                                                             *)
(***************************************************************************)
UserTexts ==
  [yes |-> <<"y","e","s">>,
   start |-> <<"s","t","a","r","t">>,
   skip |-> <<"s","k","i","p">>,
   stop |-> <<"s","t","o","p">>,
   pause |-> <<"p","a","u","s","e">>,
   stop_video |-> <<"s","t","o","p"," ","v","i","d","e","o">>,
   play |-> <<"p","l","a","y">>,
   unpause |-> <<"u","n","p","a","u","s","e">>,
   continue_video |-> <<"c","o","n","t","i","n","u","e"," ","v","i","d","e","o">>,
   hello |-> <<"h","e","l","l","o">>,
   nothing |-> <<"n","o","t","h","i","n","g">>,
   not_ok |-> <<"n","o","t"," ","o","k">>,
   demo |->
     <<"s","h","o","w"," ","m","e"," ","t","h","e"," ","d","e","m","o">>]

\* The result strings of _execute_demo_action.
ResultTexts ==
  [opened |->
     <<"S","u","c","c","e","s","s","f","u","l","l","y"," ","o","p","e","n","e","d"," ","Y","o","u","T","u","b","e">>,
   nav_issue |->
     <<"N","a","v","i","g","a","t","i","o","n"," ","i","s","s","u","e",":"," ">>,
   typed |->
     <<"S","u","c","c","e","s","s","f","u","l","l","y"," ","t","y","p","e","d"," ","s","e","a","r","c","h"," ","q","u","e","r","y">>,
   type_issue |-> <<"T","y","p","i","n","g"," ","i","s","s","u","e",":"," ">>,
   searched |->
     <<"S","u","c","c","e","s","s","f","u","l","l","y"," ","e","x","e","c","u","t","e","d"," ","t","h","e"," ","s","e","a","r","c","h">>,
   search_clicked |->
     <<"S","u","c","c","e","s","s","f","u","l","l","y"," ","c","l","i","c","k","e","d"," ","s","e","a","r","c","h"," ","b","u","t","t","o","n">>,
   search_issue |-> <<"S","e","a","r","c","h"," ","i","s","s","u","e",":"," ">>,
   video_loaded |->
     <<"S","u","c","c","e","s","s","f","u","l","l","y"," ","s","e","l","e","c","t","e","d"," ","a","n","d"," ","l","o","a","d","e","d"," ","v","i","d","e","o">>,
   video_opened |->
     <<"V","i","d","e","o"," ","p","a","g","e"," ","o","p","e","n","e","d"," ","(","l","o","a","d","i","n","g",".",".",".",")">>,
   video_selected |->
     <<"S","u","c","c","e","s","s","f","u","l","l","y"," ","s","e","l","e","c","t","e","d"," ","a"," ","v","i","d","e","o">>,
   video_issue |->
     <<"V","i","d","e","o"," ","s","e","l","e","c","t","i","o","n"," ","i","s","s","u","e",":"," ","C","o","u","l","d"," ","n","o","t"," ","f","i","n","d"," ","c","l","i","c","k","a","b","l","e"," ","v","i","d","e","o">>,
   no_video |->
     <<"V","i","d","e","o"," ","e","l","e","m","e","n","t"," ","n","o","t"," ","f","o","u","n","d"," ","-"," ","p","a","g","e"," ","m","a","y"," ","s","t","i","l","l"," ","b","e"," ","l","o","a","d","i","n","g">>,
   paused |->
     <<"S","u","c","c","e","s","s","f","u","l","l","y"," ","p","a","u","s","e","d"," ","t","h","e"," ","v","i","d","e","o">>,
   resumed |->
     <<"S","u","c","c","e","s","s","f","u","l","l","y"," ","r","e","s","u","m","e","d"," ","t","h","e"," ","v","i","d","e","o">>,
   pause_sent |->
     <<"P","a","u","s","e"," ","c","o","m","m","a","n","d"," ","s","e","n","t"," ","-"," ","v","i","d","e","o"," ","s","t","a","t","e"," ","m","a","y"," ","t","a","k","e"," ","a"," ","m","o","m","e","n","t"," ","t","o"," ","u","p","d","a","t","e">>,
   unknown_action |-> <<"U","n","k","n","o","w","n"," ","a","c","t","i","o","n">>,
   empty |-> <<>>]

ErrorDetails ==
  [unknown |-> <<"u","n","k","n","o","w","n">>,
   timeout |-> <<"t","i","m","e","d"," ","o","u","t">>]
FailureWords ==
  [issue |-> <<"i","s","s","u","e">>,
   error |-> <<"e","r","r","o","r">>]

\* The word lists of demo_node and _handle_interrupt_command.
Words ==
  [confirmations |->
     << <<"y","e","s">>,
        <<"y","e","a","h">>,
        <<"y","e","p">>,
        <<"o","k">>,
        <<"o","k","a","y">>,
        <<"s","u","r","e">>,
        <<"s","t","a","r","t">>,
        <<"g","o">>,
        <<"c","o","n","t","i","n","u","e">>,
        <<"n","e","x","t">> >>,
   skip_words |->
     << <<"s","k","i","p">> >>,
   cancel_words |->
     << <<"n","o">>,
        <<"s","t","o","p">>,
        <<"c","a","n","c","e","l">>,
        <<"e","x","i","t">>,
        <<"q","u","i","t">> >>,
   pause_words |->
     << <<"p","a","u","s","e">>,
        <<"s","t","o","p"," ","v","i","d","e","o">>,
        <<"p","a","u","s","e"," ","v","i","d","e","o">>,
        <<"h","o","l","d">> >>,
   play_words |->
     << <<"p","l","a","y">>,
        <<"r","e","s","u","m","e">>,
        <<"u","n","p","a","u","s","e">>,
        <<"c","o","n","t","i","n","u","e"," ","v","i","d","e","o">> >>]
UpperToLower ==
  ("A" :> "a") @@ ("B" :> "b") @@ ("C" :> "c") @@ ("D" :> "d") @@ ("E" :> "e") @@ ("F" :> "f") @@ ("G" :> "g") @@ ("H" :> "h") @@ ("I" :> "i") @@ ("J" :> "j") @@ ("K" :> "k") @@ ("L" :> "l") @@ ("M" :> "m") @@ ("N" :> "n") @@ ("O" :> "o") @@ ("P" :> "p") @@ ("Q" :> "q") @@ ("R" :> "r") @@ ("S" :> "s") @@ ("T" :> "t") @@ ("U" :> "u") @@ ("V" :> "v") @@ ("W" :> "w") @@ ("X" :> "x") @@ ("Y" :> "y") @@ ("Z" :> "z")
Intents ==
  [start_demo |-> <<"s","t","a","r","t","_","d","e","m","o">>,
   navigate |-> <<"n","a","v","i","g","a","t","e">>,
   enrich |-> <<"e","n","r","i","c","h">>,
   crm |-> <<"c","r","m">>,
   chat |-> <<"c","h","a","t">>]

\* Classifier outputs that are not bare intents.
LlmTexts ==
  [start_demo_raw |-> <<" ","S","t","a","r","t","_","D","e","m","o","\n">>,
   demo |-> <<"d","e","m","o">>,
   sentence |-> <<"I"," ","t","h","i","n","k",":"," ","c","h","a","t">>,
   navigate_raw |-> <<"N","a","v","i","g","a","t","e">>]

(***************************************************************************)
(* str.lower(), `word in text`, any(word in text for word in words).       *)
(***************************************************************************)
Lower(text) ==
  [i \in 1..Len(text) |->
     IF text[i] \in DOMAIN UpperToLower THEN UpperToLower[text[i]] ELSE text[i]]

Contains(text, word) ==
  \E i \in 0..(Len(text) - Len(word)) : SubSeq(text, i + 1, i + Len(word)) = word

AnyIn(words, text) ==
  \E k \in 1..Len(words) : Contains(text, words[k])

IsPrefix(s, t) ==
  /\ Len(s) <= Len(t)
  /\ SubSeq(t, 1, Len(s)) = s

(***************************************************************************)
(* Guided demo engine (graph/demo_node.py).                                *)
(***************************************************************************)

\* state.get("demo") or {}: every .get() of the node then yields its default.
NoDemo ==
  [present |-> FALSE, is_active |-> FALSE, step |-> 0, target_site |-> "",
   awaiting_confirmation |-> FALSE, retry_count |-> 0]

MkDemo(active, step, site, awaiting, retry) ==
  [present |-> TRUE, is_active |-> active, step |-> step, target_site |-> site,
   awaiting_confirmation |-> awaiting, retry_count |-> retry]

DEMO_STEPS ==
  [s \in 0..6 |->
     CASE s = 0 -> [name |-> "intro", action |-> "none", awaits_confirmation |-> TRUE]
       [] s = 1 -> [name |-> "navigate", action |-> "navigate_youtube", awaits_confirmation |-> TRUE]
       [] s = 2 -> [name |-> "search_type", action |-> "type_search", awaits_confirmation |-> TRUE]
       [] s = 3 -> [name |-> "search_click", action |-> "click_search", awaits_confirmation |-> FALSE]
       [] s = 4 -> [name |-> "select_video", action |-> "click_video", awaits_confirmation |-> TRUE]
       [] s = 5 -> [name |-> "pause_video", action |-> "pause_video", awaits_confirmation |-> FALSE]
       [] s = 6 -> [name |-> "complete", action |-> "none", awaits_confirmation |-> FALSE]]

\* DEMO_STEPS.get(current_step, DEMO_STEPS[6])
StepInfo(step) ==
  IF step \in DOMAIN DEMO_STEPS THEN DEMO_STEPS[step] ELSE DEMO_STEPS[6]

(***************************************************************************)
(* What the browser service answers during one turn.  ok1, ok2: whether    *)
(* the first and the second interaction call returned 200; err: the error  *)
(* detail of a failed call; q: the answers of successive video-state       *)
(* probes.  A probe that fails yields {"exists": False} (VideoState.none).         *)
(***************************************************************************)
VideoState ==
  [none |->
     [exists |-> FALSE, paused |-> "missing", watch |-> FALSE, ready |-> FALSE],
   loading |->
     [exists |-> FALSE, paused |-> "missing", watch |-> TRUE, ready |-> FALSE],
   playing |->
     [exists |-> TRUE, paused |-> "no", watch |-> TRUE, ready |-> TRUE],
   paused |->
     [exists |-> TRUE, paused |-> "yes", watch |-> TRUE, ready |-> TRUE]]

VideoStates == {VideoState.none, VideoState.loading, VideoState.playing, VideoState.paused}

NoProbes == [i \in 1..4 |-> VideoState.none]

\* video_state.get("paused", default)
Paused(vs, default) ==
  IF vs.paused = "missing" THEN default ELSE vs.paused = "yes"

\* The answers that can differ for one kind of browser work.
BrowserReplies(kind) ==
  CASE kind \in {"navigate_youtube", "type_search", "click_search"} ->
         [ok1 : BOOLEAN, ok2 : BOOLEAN, err : {ErrorDetails.unknown, ErrorDetails.timeout}, q : {NoProbes}]
    [] kind = "click_video" ->
         [ok1 : BOOLEAN, ok2 : BOOLEAN, err : {ErrorDetails.unknown},
          q : {[i \in 1..4 |-> IF i = 1 THEN v ELSE VideoState.none] : v \in VideoStates}]
    [] kind = "pause_video" ->
         [ok1 : {TRUE}, ok2 : {TRUE}, err : {ErrorDetails.unknown}, q : [1..4 -> VideoStates]]
    [] kind = "interrupt" ->
         [ok1 : {TRUE}, ok2 : {TRUE}, err : {ErrorDetails.unknown},
          q : {[i \in 1..4 |-> IF i = 1 THEN v ELSE IF i = 2 THEN w ELSE VideoState.none] :
                 v \in VideoStates, w \in VideoStates}]
    [] OTHER -> {[ok1 |-> FALSE, ok2 |-> FALSE, err |-> ErrorDetails.unknown, q |-> NoProbes]}

\* _execute_demo_action: the result text and the endpoints it called.  The
\* four selectors of click_video are one attempt here: ok1 says that one of
\* them was clicked, q[1] is the video state its polling ended with.
execute_demo_action(action, retry_attempt, b) ==
  CASE action = "navigate_youtube" ->
         [text |-> IF b.ok1 THEN ResultTexts.opened ELSE ResultTexts.nav_issue \o b.err,
          calls |-> {"navigate"}]
    [] action = "type_search" ->
         [text |-> IF b.ok1 \/ b.ok2 THEN ResultTexts.typed ELSE ResultTexts.type_issue \o b.err,
          calls |-> {"type"}]
    [] action = "click_search" ->
         [text |-> IF b.ok1 THEN ResultTexts.searched
                   ELSE IF b.ok2 THEN ResultTexts.search_clicked
                   ELSE ResultTexts.search_issue \o b.err,
          calls |-> IF b.ok1 THEN {"press"} ELSE {"press", "click"}]
    [] action = "click_video" ->
         [text |-> IF b.ok1 /\ b.q[1].watch /\ b.q[1].exists /\ b.q[1].ready
                     THEN ResultTexts.video_loaded
                   ELSE IF b.ok1 /\ b.q[1].watch THEN ResultTexts.video_opened
                   ELSE IF retry_attempt > 0 /\ b.ok2 THEN ResultTexts.video_selected
                   ELSE ResultTexts.video_issue,
          calls |-> {"click"}
                    \cup (IF b.ok1 THEN {"get-video-state"} ELSE {})
                    \cup (IF retry_attempt > 0
                             /\ ~(b.ok1 /\ b.q[1].watch) THEN {"scroll"} ELSE {})]
    [] action = "pause_video" ->
         LET vs == IF b.q[1].exists THEN b.q[1] ELSE b.q[2]
             was_paused == Paused(vs, FALSE)
         IN [text |-> IF ~vs.exists THEN ResultTexts.no_video
                      ELSE IF Paused(b.q[3], FALSE) /\ ~was_paused THEN ResultTexts.paused
                      ELSE IF ~Paused(b.q[3], TRUE) /\ was_paused THEN ResultTexts.resumed
                      ELSE IF Paused(b.q[4], FALSE) THEN ResultTexts.paused
                      ELSE ResultTexts.pause_sent,
             calls |-> IF vs.exists THEN {"get-video-state", "press"}
                       ELSE {"get-video-state"}]
    [] OTHER -> [text |-> ResultTexts.unknown_action, calls |-> {}]

\* "issue" in action_result.lower() or "error" in action_result.lower()
ActionFailed(action_result) ==
  \/ Contains(Lower(action_result), FailureWords.issue)
  \/ Contains(Lower(action_result), FailureWords.error)

\* _generate_demo_response: which of its texts it returns.  llm_ok says
\* whether the model call of the remaining steps succeeded.
generate_demo_response(step_number, is_retry, llm_ok) ==
  IF step_number = 0 THEN "intro"
  ELSE IF step_number = 6 THEN "complete"
  ELSE IF is_retry THEN "retry"
  ELSE IF llm_ok THEN "step_llm"
  ELSE "step_done"

\* _handle_interrupt_command: the reply, "none" for None, and the calls.
handle_interrupt_command(user_text, b) ==
  LET user_text_lower == Lower(user_text)
      video_state == b.q[1]
      new_state == b.q[2]
  IN IF AnyIn(Words.pause_words, user_text_lower)
       THEN IF video_state.exists
              THEN IF ~Paused(video_state, TRUE)
                     THEN [reply |-> IF Paused(new_state, FALSE)
                                       THEN "video_paused" ELSE "pause_failed",
                           calls |-> {"get-video-state", "press"}]
                     ELSE [reply |-> "already_paused", calls |-> {"get-video-state"}]
              ELSE [reply |-> "no_video", calls |-> {"get-video-state"}]
     ELSE IF AnyIn(Words.play_words, user_text_lower)
       THEN IF video_state.exists /\ Paused(video_state, TRUE)
              THEN [reply |-> "video_resumed", calls |-> {"get-video-state", "press"}]
              ELSE [reply |-> "none", calls |-> {"get-video-state"}]
     ELSE [reply |-> "none", calls |-> {}]

NoExec == [step |-> -1, action |-> "none", attempt |-> 0, failed |-> FALSE]

\* demo_node from "Get step info" on: run the step's action, detect a
\* failure, build the reply and the new DemoState.
run_step(current_step, retry_count, b, llm_ok) ==
  LET step_info == StepInfo(current_step)
      has_action == step_info.action # "none"
      res == IF has_action
               THEN execute_demo_action(step_info.action, retry_count, b)
               ELSE [text |-> ResultTexts.empty, calls |-> {}]
      action_failed == has_action /\ ActionFailed(res.text)
      exec == IF has_action
                THEN [step |-> current_step, action |-> step_info.action,
                      attempt |-> retry_count, failed |-> action_failed]
                ELSE NoExec
  IN IF action_failed
       THEN [reply |-> IF retry_count + 1 < 2
                         THEN generate_demo_response(current_step, TRUE, llm_ok)
                         ELSE "ask",
             demo |-> MkDemo(TRUE, current_step, "youtube", TRUE, retry_count + 1),
             exec |-> exec, calls |-> res.calls]
       ELSE [reply |-> generate_demo_response(current_step, FALSE, llm_ok),
             demo |-> MkDemo(current_step < 6,
                             IF step_info.awaits_confirmation
                               THEN current_step ELSE current_step + 1,
                             "youtube", step_info.awaits_confirmation, 0),
             exec |-> exec, calls |-> res.calls]

\* A check of the user's input that does not ask whether the demo awaits
\* confirmation.
inspect_always(state) ==
  LET user_text == Lower(state.last_content)
  IN IF AnyIn(Words.confirmations, user_text) THEN "confirm"
     ELSE IF AnyIn(Words.skip_words, user_text) THEN "skip"
     ELSE IF AnyIn(Words.cancel_words, user_text) THEN "cancel"
     ELSE "other"

\* The "Check user input" test of demo_node: which branch the newest
\* message takes when the demo is active.
UserBranch(state) ==
  LET demo == state.demo
      messages == state.messages
      inspect == /\ demo.awaiting_confirmation
                 /\ Len(messages) > 0
                 /\ messages[Len(messages)].type = "human"
      user_text == Lower(state.last_content)
  IN IF ~inspect THEN "run"
     ELSE IF AnyIn(Words.confirmations, user_text) THEN "confirm"
     ELSE IF AnyIn(Words.skip_words, user_text) THEN "skip"
     ELSE IF AnyIn(Words.cancel_words, user_text) THEN "cancel"
     ELSE "other"

\* A confirmation that stays on the step it confirmed.
same_step(demo) == demo.step

\* A confirmation that goes back to the first browser step after the second.
step_back(demo) == IF demo.step = 2 THEN 1 ELSE demo.step + 1

\* The confirmation and skip branches: current_step += 1.
next_step(demo) == demo.step + 1

\* A cancel that keeps the step reached.
stopped_demo(demo) == MkDemo(FALSE, demo.step, "", FALSE, 0)

\* The DemoState the cancel branch returns.
cancelled_demo(demo) == MkDemo(FALSE, 0, "", FALSE, 0)

\* The browser work a demo turn is about to do: what BrowserReplies ranges over.
DemoWork(state) ==
  IF ~state.demo.is_active THEN "none"
  ELSE LET br == UserBranch(state)
       IN CASE br = "cancel" -> "none"
            [] br = "other" -> "interrupt"
            [] br \in {"confirm", "skip"} -> StepInfo(next_step(state.demo)).action
            [] OTHER -> StepInfo(state.demo.step).action

\* A start that goes straight on to the first browser step.
eager_start(llm_ok) ==
  [reply |-> generate_demo_response(1, FALSE, llm_ok),
   demo |-> MkDemo(TRUE, 1, "youtube", TRUE, 0),
   exec |-> [step |-> 1, action |-> StepInfo(1).action, attempt |-> 0,
             failed |-> FALSE],
   calls |-> {"navigate"}]

\* "Initialize demo if not active": the intro of step 0, no browser call.
initialize_demo(llm_ok) ==
  [reply |-> generate_demo_response(0, FALSE, llm_ok),
   demo |-> MkDemo(TRUE, 0, "youtube", TRUE, 0),
   exec |-> NoExec, calls |-> {}]

demo_node(state, b, llm_ok) ==
  LET demo == state.demo
      br == UserBranch(state)
      interrupt == handle_interrupt_command(state.last_content, b)
  IN IF ~demo.is_active
       THEN initialize_demo(llm_ok)
     ELSE IF br = "cancel"
       THEN [reply |-> "cancelled",
             demo |-> cancelled_demo(demo),
             exec |-> NoExec, calls |-> {}]
     ELSE IF br = "other"
       THEN [reply |-> IF interrupt.reply # "none" THEN interrupt.reply ELSE "demo_mode",
             demo |-> demo,
             exec |-> NoExec, calls |-> interrupt.calls]
     ELSE IF br \in {"confirm", "skip"}
       THEN run_step(next_step(demo), 0, b, llm_ok)
     ELSE run_step(demo.step, demo.retry_count, b, llm_ok)

(***************************************************************************)
(* Router and capability nodes (graph/nodes.py, graph/tool_nodes.py,       *)
(* graph/builder.py).                                                      *)
(***************************************************************************)

\* str.strip()
Strip(text) ==
  LET keep == {i \in 1..Len(text) : text[i] \notin {" ", "\n", "\t"}}
  IN IF keep = {} THEN <<>>
     ELSE SubSeq(text, CHOOSE i \in keep : \A j \in keep : i <= j,
                       CHOOSE i \in keep : \A j \in keep : j <= i)

valid_intents == {Intents.navigate, Intents.enrich, Intents.crm, Intents.chat}

IntentName(intent) ==
  CASE intent = Intents.navigate -> "navigate"
    [] intent = Intents.enrich -> "enrich"
    [] intent = Intents.crm -> "crm"
    [] OTHER -> "chat"

\* What the classifier call can give: an exception, or a text.
LlmFailure == [ok |-> FALSE, content |-> <<>>]

LlmAnswers ==
  {LlmFailure} \cup
  {[ok |-> TRUE, content |-> x] :
     x \in {Intents.start_demo, Intents.navigate, Intents.enrich, Intents.crm, Intents.chat,
            LlmTexts.start_demo_raw, LlmTexts.navigate_raw, LlmTexts.demo, LlmTexts.sentence}}

\* A router that leaves the hint as it found it when it cannot decide.
no_intent == "unset"

\* What the router answers when there is nothing to classify, when the
\* classifier's word is not an intent, and when the classifier call fails.
fallback_intent == "chat"

\* A router that classifies every human message, demo or not.
classify_always(state, llm) ==
  IF Len(state.messages) = 0
    THEN [next_action |-> "chat", reset |-> FALSE, classified |-> FALSE]
  ELSE IF state.messages[Len(state.messages)].type # "human"
    THEN [next_action |-> "chat", reset |-> FALSE, classified |-> FALSE]
  ELSE IF ~llm.ok
    THEN [next_action |-> "chat", reset |-> FALSE, classified |-> TRUE]
  ELSE LET intent == Lower(Strip(llm.content))
       IN IF intent = Intents.start_demo
            THEN [next_action |-> "demo", reset |-> TRUE, classified |-> TRUE]
          ELSE IF intent \notin valid_intents
            THEN [next_action |-> "chat", reset |-> FALSE, classified |-> TRUE]
          ELSE [next_action |-> IntentName(intent), reset |-> FALSE, classified |-> TRUE]

router_node(state, llm) ==
  IF state.demo.present /\ state.demo.is_active
    THEN [next_action |-> "demo", reset |-> FALSE, classified |-> FALSE]
  ELSE IF Len(state.messages) = 0
    THEN [next_action |-> fallback_intent, reset |-> FALSE, classified |-> FALSE]
  ELSE IF state.messages[Len(state.messages)].type # "human"
    THEN [next_action |-> fallback_intent, reset |-> FALSE, classified |-> FALSE]
  ELSE IF ~llm.ok
    THEN [next_action |-> fallback_intent, reset |-> FALSE, classified |-> TRUE]
  ELSE LET intent == Lower(Strip(llm.content))
       IN IF intent = Intents.start_demo
            THEN [next_action |-> "demo", reset |-> TRUE, classified |-> TRUE]
          ELSE IF intent \notin valid_intents
            THEN [next_action |-> fallback_intent, reset |-> FALSE, classified |-> TRUE]
          ELSE [next_action |-> IntentName(intent), reset |-> FALSE, classified |-> TRUE]

route_by_intent(next_action) ==
  IF next_action \in {"navigate", "enrich", "crm", "chat", "demo"}
    THEN next_action ELSE "chat"

\* The conditional edges of create_sales_agent_graph.
GraphNode(route) ==
  CASE route = "chat" -> "chat"
    [] route = "navigate" -> "navigate"
    [] route = "enrich" -> "enrich"
    [] route = "crm" -> "crm"
    [] route = "demo" -> "demo_workflow"

\* chat_node, navigate_node, enrich_node, crm_node: one agent message each,
\* the tool's text or the text of the except branch.
tool_node(node, ok) ==
  [reply |-> IF ok THEN node ELSE "node_error", exec |-> NoExec, calls |-> {}]

\* A reducer that keeps only what the node returned.
last_value(left, right) == right

\* langgraph's add_messages reducer: new messages carry fresh ids and are appended.
add_messages(left, right) == left \o right

(***************************************************************************)
(* Conversation service state.                                             *)
(***************************************************************************)
Conns == {"c1", "c2"}
Threads == {"t1", "t2"}

\* websocket_endpoint's thread ids: f"user_{user.id}" for a user, and for a
\* guest str(uuid.uuid4()), here the n-th identifier drawn.
UserThread(u) == "user_" \o ToString(u)
GuestThread(n) == "guest_" \o ToString(n)

\* Every thread a checkpoint can be stored under.
AllThreads ==
  Threads \cup {UserThread(u) : u \in 1..MaxUsers}
          \cup {GuestThread(n) : n \in 1..Cardinality(Conns)}
NoConn == "none"

VARIABLES
  env,          \* the environment of a run: who connects, what they type,
                \* how many frames are sent in all
  checkpointer, \* whether the Postgres checkpointer was initialised
  store,        \* per thread: the latest checkpoint
  cpLog,        \* per thread: for each checkpoint written, its parent's id
  pc,           \* per connection: where websocket_endpoint stands
  thread_id,    \* per connection: the thread it is bound to
  inbox,        \* per connection: frames sent by the client, not yet read
  typed,        \* per connection: how many frames the client has sent
  received,     \* per connection: how many frames the handler has read
  sent,         \* per connection: ordinals of the turns whose reply was sent
  turn,         \* per connection: the turn in progress
  loop,         \* the connection whose handler runs on the event loop
  streak,       \* per thread (history): the step whose action failed last
                \* and how many executions in a row have failed on it
  bReq,         \* browser: per request, the operation and its URL
  bpc,          \* browser: per request, where it stands
  lockHolder,   \* browser: the request holding BrowserManager._lock
  waiters,      \* browser: requests waiting for the lock, oldest first
  page,         \* browser: URL and title of the shared page
  result,       \* browser: per request, what it returns
  crmProvider,  \* leads: the configured adapter
  leadMapping,  \* leads: the columns of the Lead mapping
  leads,        \* leads: the rows of the leads table
  resp,         \* leads: per lead, the response to its POST /leads
  bgpc,         \* leads: per lead, where its background sync stands
  scheduled,    \* leads (history): background syncs scheduled per lead
  created,      \* leads (history): external contacts created per lead
  bgCalls,      \* leads (history): adapter calls of the background sync
  notified,     \* leads (history): notification emails per lead
  syncs,        \* leads: sync requests made so far
  syncResp,     \* leads: per lead, the last answer of POST /leads/{id}/sync
  syncAllResp,  \* leads: the last answer of POST /sync-all
  leadLog,      \* leads (history): per lead, PATCHes applied, DELETE answered,
                \* create/update calls made on the adapter, the path that made
                \* the last one, the method it called and what it raised
  readResp,     \* leads: the last answer of GET /leads/{id} or GET /leads
  users,        \* accounts: the rows of the users table, a row's id its place
  now,          \* accounts: the clock, in hours
  issued,       \* accounts (history): the tokens issued so far
  authResp,     \* accounts: the answer of POST /register or GET /me on its way
  wsToken,      \* per connection (history): the token query parameter
  user_context, \* per connection: the user context passed to every turn
  guests,       \* how many guest thread ids were drawn
  enrich,       \* enrichment: the last request to POST /enrich and its answer
  toolCall      \* save_lead: the last input of the tool and what it made of it

convVars ==
  <<env, checkpointer, store, cpLog, pc, thread_id, inbox, typed, received,
    sent, turn, loop, streak>>

browserVars == <<bReq, bpc, lockHolder, waiters, page, result>>

toolVars == <<enrich, toolCall>>

authVars == <<users, now, issued, authResp, wsToken, user_context, guests>>

crmVars ==
  <<crmProvider, leadMapping, leads, resp, bgpc, scheduled, created, bgCalls,
    notified, syncs, syncResp, syncAllResp, leadLog, readResp>>

\* messages: who wrote each message; last_content: the content of the newest.
EmptyState == [messages |-> <<>>, last_content |-> <<>>, demo |-> NoDemo,
               next_action |-> "unset"]

EmptyCheckpoint == [id |-> 0, values |-> EmptyState]

IdleTurn ==
  [k |-> 0, input |-> <<>>, loaded |-> NoDemo, state |-> EmptyState, cp |-> 0,
   node |-> "none", classified |-> FALSE, exec |-> NoExec, calls |-> {},
   reply |-> "none", trace |-> <<>>, raised |-> "none", probe |-> "none"]

HumanMessage(c, k) == [type |-> "human", conn |-> c, k |-> k]
AIMessage(c, k) == [type |-> "ai", conn |-> c, k |-> k]

AllTexts ==
  {UserTexts.yes, UserTexts.start, UserTexts.skip, UserTexts.stop, UserTexts.pause, UserTexts.stop_video, UserTexts.play, UserTexts.unpause,
   UserTexts.continue_video, UserTexts.hello, UserTexts.nothing, UserTexts.not_ok, UserTexts.demo,
   <<"Y","e","a","h">>,
   <<"y","e","p">>,
   <<"o","k">>,
   <<"O","k","a","y">>,
   <<"s","u","r","e">>,
   <<"g","o">>,
   <<"c","o","n","t","i","n","u","e">>,
   <<"N","e","x","t">>,
   <<"n","o">>,
   <<"c","a","n","c","e","l">>,
   <<"e","x","i","t">>,
   <<"Q","u","i","t">>,
   <<"p","a","u","s","e"," ","v","i","d","e","o">>,
   <<"h","o","l","d">>,
   <<"r","e","s","u","m","e">>}

NoStreak == [step |-> -1, n |-> 0]

\* The run of consecutive failed executions after one more execution.
Streak(old, exec) ==
  IF exec = NoExec THEN old
  ELSE IF ~exec.failed THEN NoStreak
  ELSE IF exec.step = old.step THEN [step |-> exec.step, n |-> old.n + 1]
  ELSE [step |-> exec.step, n |-> 1]

InitConv(e, cps) ==
  /\ env = e
  /\ checkpointer \in cps
  /\ store = [t \in AllThreads |-> EmptyCheckpoint]
  /\ cpLog = [t \in AllThreads |-> <<>>]
  /\ pc = [c \in Conns |-> IF c \in e.conns THEN "recv" ELSE "closed"]
  /\ thread_id \in [Conns -> Threads]
  /\ \A c \in Conns \ e.conns : thread_id[c] = "t1"
  /\ inbox = [c \in Conns |-> <<>>]
  /\ typed = [c \in Conns |-> 0]
  /\ received = [c \in Conns |-> 0]
  /\ sent = [c \in Conns |-> <<>>]
  /\ turn = [c \in Conns |-> IdleTurn]
  /\ loop = NoConn
  /\ streak = [t \in AllThreads |-> NoStreak]

\* graph.get_state / the checkpoint the graph run starts from.
Saved(t) == IF checkpointer THEN store[t] ELSE EmptyCheckpoint

\* A checkpoint write of connection c's turn: a child of the checkpoint the
\* turn last read or wrote.
PutCheckpoint(c, parent, values) ==
  LET t == thread_id[c]
      id == Len(cpLog[t]) + 1
  IN IF checkpointer
       THEN /\ store' = [store EXCEPT ![t] = [id |-> id, values |-> values]]
            /\ cpLog' = [cpLog EXCEPT ![t] = Append(@, parent)]
       ELSE UNCHANGED <<store, cpLog>>

NextCp(c) == IF checkpointer THEN Len(cpLog[thread_id[c]]) + 1 ELSE 0

\* The client sends a frame.  A patient client waits for the reply to the
\* previous frame first.
ClientSend(c) ==
  /\ pc[c] # "closed"
  /\ typed["c1"] + typed["c2"] < env.maxTurns
  /\ IF env.patient
       THEN pc[c] = "recv" /\ inbox[c] = <<>>
       ELSE Len(inbox[c]) < MaxPending
  /\ \E m \in env.texts : inbox' = [inbox EXCEPT ![c] = Append(@, m)]
  /\ typed' = [typed EXCEPT ![c] = @ + 1]
  /\ UNCHANGED <<toolVars, authVars, browserVars, crmVars, env, checkpointer, store, cpLog, pc, thread_id, received, sent,
                 turn, loop, streak>>

\* A handler that reads the next frame while a reply is still to be sent.
CanReceiveEarly(c) == pc[c] \in {"recv", "send"}

\* websocket_endpoint is at `await websocket.receive_text()`.
CanReceive(c) == pc[c] = "recv"

\* A handler that awaits the graph run: the event loop serves the other
\* handlers while a turn is in progress.
LoopYields == TRUE

\* invoke_graph is a plain call inside the coroutine: until it returns, the
\* event loop runs no other handler.
LoopFree == loop = NoConn

Receive(c) ==
  /\ CanReceive(c)
  /\ inbox[c] # <<>>
  /\ LoopFree
  /\ loop' = c
  /\ pc' = [pc EXCEPT ![c] = "invoke"]
  /\ received' = [received EXCEPT ![c] = @ + 1]
  /\ inbox' = [inbox EXCEPT ![c] = Tail(@)]
  /\ turn' = [turn EXCEPT ![c] = [IdleTurn EXCEPT !.k = received[c] + 1,
                                                  !.input = Head(inbox[c])]]
  /\ UNCHANGED <<toolVars, authVars, browserVars, crmVars, env, checkpointer, store, cpLog, thread_id, typed, sent, streak>>

\* invoke_graph's own graph.get_state, inside a try whose except only prints:
\* without a checkpointer it raises, with one it raises when the database
\* fails.  Either way the turn goes on.
get_state(faults) ==
  IF ~checkpointer THEN {"failed"}
  ELSE IF faults THEN {"ok", "failed"}
  ELSE {"ok"}

\* invoke_graph up to the first node: read the thread's checkpoint, merge the
\* new HumanMessage into it and write the input checkpoint.
LoadInput(c) ==
  /\ pc[c] = "invoke"
  /\ loop = c
  /\ LET saved == Saved(thread_id[c])
         values == [saved.values EXCEPT
                      !.messages = add_messages(@, <<HumanMessage(c, turn[c].k)>>),
                      !.last_content = turn[c].input]
     IN /\ \E got \in get_state(env.faults) :
             turn' = [turn EXCEPT ![c].state = values,
                                  ![c].loaded = saved.values.demo,
                                  ![c].probe = got,
                                  ![c].cp = NextCp(c)]
        /\ PutCheckpoint(c, saved.id, values)
  /\ pc' = [pc EXCEPT ![c] = "route"]
  /\ UNCHANGED <<toolVars, authVars, browserVars, crmVars, env, checkpointer, thread_id, inbox, typed, received, sent, loop,
                 streak>>

\* The router node and its checkpoint.
Route(c) ==
  /\ pc[c] = "route"
  /\ loop = c
  /\ \E llm \in env.llm :
       LET r == router_node(turn[c].state, llm)
           values == [turn[c].state EXCEPT
                        !.next_action = r.next_action,
                        !.demo = IF r.reset THEN NoDemo ELSE @]
       IN /\ turn' = [turn EXCEPT ![c].state = values,
                                  ![c].classified = r.classified,
                                  ![c].trace = Append(@, "router"),
                                  ![c].cp = NextCp(c)]
          /\ PutCheckpoint(c, turn[c].cp, values)
  /\ pc' = [pc EXCEPT ![c] = "node"]
  /\ UNCHANGED <<toolVars, authVars, browserVars, crmVars, env, checkpointer, thread_id, inbox, typed, received, sent, loop,
                 streak>>

\* An invoke_graph that finds no message in the result.
no_response(values) == "no_response"

\* The end of invoke_graph: the content of the last message of the result,
\* or a fixed text when the result has no message.
response_text(values) ==
  IF values.messages # <<>> THEN values.last_content ELSE "no_response"

\* The capability node chosen by route_by_intent, its checkpoint, and the
\* return of invoke_graph: the text of the last message.  The handler then
\* reaches `await websocket.send_text`.
RunNode(c) ==
  /\ pc[c] = "node"
  /\ loop = c
  /\ LET state == turn[c].state
         node == GraphNode(route_by_intent(state.next_action))
         work == IF node = "demo_workflow" THEN DemoWork(state) ELSE "none"
     IN \E b \in BrowserReplies(work), ok \in BOOLEAN :
          LET out == IF node = "demo_workflow"
                       THEN demo_node(state, b, ok)
                       ELSE tool_node(node, ok) @@ [demo |-> state.demo]
              values == [state EXCEPT
                           !.messages = add_messages(@, <<AIMessage(c, turn[c].k)>>),
                           !.last_content = out.reply,
                           !.demo = out.demo]
          IN /\ turn' = [turn EXCEPT ![c].state = values,
                                     ![c].node = node,
                                     ![c].exec = out.exec,
                                     ![c].calls = out.calls,
                                     ![c].reply = response_text(values),
                                     ![c].trace = Append(@, node),
                                     ![c].cp = NextCp(c)]
             /\ PutCheckpoint(c, turn[c].cp, values)
             /\ streak' = [streak EXCEPT ![thread_id[c]] = Streak(@, out.exec)]
  /\ pc' = [pc EXCEPT ![c] = "send"]
  /\ loop' = NoConn
  /\ UNCHANGED <<toolVars, authVars, browserVars, crmVars, env, checkpointer, thread_id, inbox, typed, received, sent>>

\* invoke_graph without its outer `except`: the exception leaves the call and
\* websocket_endpoint's own `except Exception` closes the socket.
propagate(stage) == [reply |-> "none", pc |-> "closed", raised |-> stage]

\* invoke_graph's outer `except Exception`: the call returns the text
\* "Error: <message>" and the handler goes on to send it.
on_exception(stage) == [reply |-> "Error", pc |-> "send", raised |-> stage]

\* graph.invoke raises: the checkpointer's connection pool fails while the run
\* reads the thread's checkpoint ("invoke") or writes the checkpoint that
\* follows the router ("route") or the capability node ("node").  What the
\* failed step computed is lost with it.
Raise(c) ==
  /\ pc[c] \in {"invoke", "route", "node"}
  /\ loop = c
  /\ checkpointer
  /\ env.faults
  /\ LET out == on_exception(pc[c])
     IN /\ turn' = [turn EXCEPT ![c].reply = out.reply, ![c].raised = out.raised]
        /\ pc' = [pc EXCEPT ![c] = out.pc]
  /\ loop' = NoConn
  /\ UNCHANGED <<toolVars, authVars, browserVars, crmVars, env, checkpointer, store, cpLog, thread_id, inbox, typed,
                 received, sent, streak>>

\* `await websocket.send_text(agent_response)`, then back to receive_text.
Send(c) ==
  /\ pc[c] = "send"
  /\ sent' = [sent EXCEPT ![c] = Append(@, turn[c].k)]
  /\ turn' = [turn EXCEPT ![c] = IdleTurn]
  /\ pc' = [pc EXCEPT ![c] = "recv"]
  /\ UNCHANGED <<toolVars, authVars, browserVars, crmVars, env, checkpointer, store, cpLog, thread_id, inbox, typed,
                 received, loop, streak>>

NextConv ==
  \E c \in Conns :
    \/ ClientSend(c)
    \/ Receive(c)
    \/ LoadInput(c)
    \/ Route(c)
    \/ RunNode(c)
    \/ Send(c)

(***************************************************************************)
(* Browser service (browser_service/app/main.py): BrowserManager, one      *)
(* page shared by every request, guarded by one asyncio.Lock.              *)
(***************************************************************************)
Reqs == 1..MaxRequests
NoReq == 0
Urls == {"u1", "u2"}

BlankPage == [url |-> "about:blank", title |-> "blank"]

\* The page after page.goto(u) has loaded u.
PageAt(u) == [url |-> u, title |-> IF u = "u1" THEN "title1" ELSE "title2"]

ReqKinds ==
  [op : {"navigate"}, url : Urls]
    \cup [op : {"click", "type_text", "get_text", "screenshot", "get_page_info",
                "get_frame"},
          url : {"-"}]

NoResult == [ok |-> FALSE, url |-> "-", title |-> "-", waited |-> FALSE]

InitBrowser ==
  /\ bReq \in [Reqs -> ReqKinds]
  /\ bpc = [r \in Reqs |-> "call"]
  /\ lockHolder = NoReq
  /\ waiters = <<>>
  /\ page = BlankPage
  /\ result = [r \in Reqs |-> NoResult]

IdleBrowser ==
  /\ bReq = [r \in Reqs |-> [op |-> "get_frame", url |-> "-"]]
  /\ bpc = [r \in Reqs |-> "done"]
  /\ lockHolder = NoReq
  /\ waiters = <<>>
  /\ page = BlankPage
  /\ result = [r \in Reqs |-> NoResult]

\* A lock that is always free to take.
LockAlwaysFree(r) == TRUE

\* asyncio.Lock.acquire takes the lock at once only when it is not held and
\* no earlier request waits for it.
LockFree(r) == lockHolder = NoReq /\ waiters = <<>>

\* A return that releases the lock only when the operation succeeded.
release_on_success(r, res) ==
  /\ result' = [result EXCEPT ![r] = res]
  /\ bpc' = [bpc EXCEPT ![r] = "done"]
  /\ lockHolder' = IF res.ok THEN NoReq ELSE lockHolder

\* Leaving `async with self._lock`, by return or by exception: the lock is
\* released and the endpoint answers.
Finish(r, res) ==
  /\ result' = [result EXCEPT ![r] = res]
  /\ bpc' = [bpc EXCEPT ![r] = "done"]
  /\ lockHolder' = NoReq

\* Entering `async with self._lock` in navigate, click, type_text, get_text,
\* screenshot and get_page_info.
lock_acquire(r) ==
  /\ bpc[r] = "call"
  /\ bReq[r].op # "get_frame"
  /\ IF LockFree(r)
       THEN /\ lockHolder' = r
            /\ bpc' = [bpc EXCEPT ![r] = "locked"]
            /\ UNCHANGED <<waiters, result>>
       ELSE /\ waiters' = Append(waiters, r)
            /\ bpc' = [bpc EXCEPT ![r] = "waiting"]
            /\ result' = [result EXCEPT ![r].waited = TRUE]
            /\ UNCHANGED lockHolder
  /\ UNCHANGED <<toolVars, authVars, bReq, page, convVars, crmVars>>

\* The first waiter is woken by the release and takes the lock.
lock_wake(r) ==
  /\ bpc[r] = "waiting"
  /\ lockHolder = NoReq
  /\ waiters # <<>>
  /\ Head(waiters) = r
  /\ lockHolder' = r
  /\ waiters' = Tail(waiters)
  /\ bpc' = [bpc EXCEPT ![r] = "locked"]
  /\ UNCHANGED <<toolVars, authVars, bReq, page, result, convVars, crmVars>>

\* navigate: `await self.page.goto(url)`.  A goto that raises may or may not
\* have moved the page.
navigate(r) ==
  /\ bpc[r] = "locked"
  /\ bReq[r].op = "navigate"
  /\ \E ok \in BOOLEAN :
       IF ok
         THEN /\ page' = PageAt(bReq[r].url)
              /\ bpc' = [bpc EXCEPT ![r] = "goto_done"]
              /\ UNCHANGED <<lockHolder, result>>
         ELSE /\ \E p \in {page, PageAt(bReq[r].url)} : page' = p
              /\ Finish(r, [result[r] EXCEPT !.ok = FALSE])
  /\ UNCHANGED <<toolVars, authVars, bReq, waiters, convVars, crmVars>>

\* navigate and get_page_info: `"url": self.page.url`, read when the
\* coroutine resumes.
read_url(r) ==
  /\ \/ bpc[r] = "goto_done"
     \/ bpc[r] = "locked" /\ bReq[r].op = "get_page_info"
  /\ result' = [result EXCEPT ![r].url = page.url]
  /\ bpc' = [bpc EXCEPT ![r] = "title"]
  /\ UNCHANGED <<toolVars, authVars, bReq, lockHolder, waiters, page, convVars, crmVars>>

\* navigate and get_page_info: `"title": await self.page.title()`, then
\* return; or page.title() raises.
read_title(r) ==
  /\ bpc[r] = "title"
  /\ \E ok \in BOOLEAN :
       Finish(r, IF ok THEN [result[r] EXCEPT !.title = page.title, !.ok = TRUE]
                 ELSE [result[r] EXCEPT !.ok = FALSE])
  /\ UNCHANGED <<toolVars, authVars, bReq, waiters, page, convVars, crmVars>>

\* click: the click may follow a link.
click(r) ==
  /\ bpc[r] = "locked"
  /\ bReq[r].op = "click"
  /\ \E p \in {page} \cup {PageAt(u) : u \in Urls} : page' = p
  /\ \E ok \in BOOLEAN : Finish(r, [result[r] EXCEPT !.ok = ok])
  /\ UNCHANGED <<toolVars, authVars, bReq, waiters, convVars, crmVars>>

type_text(r) ==
  /\ bpc[r] = "locked"
  /\ bReq[r].op = "type_text"
  /\ \E ok \in BOOLEAN : Finish(r, [result[r] EXCEPT !.ok = ok])
  /\ UNCHANGED <<toolVars, authVars, bReq, waiters, page, convVars, crmVars>>

get_text(r) ==
  /\ bpc[r] = "locked"
  /\ bReq[r].op = "get_text"
  /\ \E ok \in BOOLEAN :
       Finish(r, [result[r] EXCEPT !.ok = ok, !.url = IF ok THEN page.url ELSE "-"])
  /\ UNCHANGED <<toolVars, authVars, bReq, waiters, page, convVars, crmVars>>

screenshot(r) ==
  /\ bpc[r] = "locked"
  /\ bReq[r].op = "screenshot"
  /\ \E ok \in BOOLEAN :
       Finish(r, [result[r] EXCEPT !.ok = ok, !.url = IF ok THEN page.url ELSE "-"])
  /\ UNCHANGED <<toolVars, authVars, bReq, waiters, page, convVars, crmVars>>

\* get_frame takes no lock; a failed capture yields empty bytes.
get_frame(r) ==
  /\ bpc[r] = "call"
  /\ bReq[r].op = "get_frame"
  /\ \E ok \in BOOLEAN :
       result' = [result EXCEPT ![r] = [@ EXCEPT !.ok = ok,
                                                 !.url = IF ok THEN page.url ELSE "-"]]
  /\ bpc' = [bpc EXCEPT ![r] = "done"]
  /\ UNCHANGED <<toolVars, authVars, bReq, lockHolder, waiters, page, convVars, crmVars>>

\* The steps of request r.
BrowserStep(r) ==
  \/ lock_acquire(r)
  \/ lock_wake(r)
  \/ navigate(r)
  \/ read_url(r)
  \/ read_title(r)
  \/ click(r)
  \/ type_text(r)
  \/ get_text(r)
  \/ screenshot(r)
  \/ get_frame(r)

(***************************************************************************)
(* Lead service (crm_service/app/main.py, models.py, adapters).            *)
(***************************************************************************)
LeadIds == 1..MaxLeads

\* The slice bound of `str(e)[:500]`.
SYNC_ERROR_LIMIT == 500

\* The columns class Lead declares.
LeadColumns ==
  {"id", "name", "email", "phone", "company", "summary", "status",
   "created_at", "updated_at"}

\* The attributes the sync paths read and write as columns of the lead.
SyncColumns == {"external_id", "provider", "synced_at", "sync_error"}

\* known: the external CRM already has a contact with the lead's email.
NoLead ==
  [exists |-> FALSE, name |-> "none", has_email |-> FALSE, known |-> FALSE,
   status |-> "none", external_id |-> 0,
   synced |-> FALSE, sync_error |-> 0]

\* Lead(..., status=LeadStatus.NEW) after db.commit().
NewLead(lead) ==
  [exists |-> TRUE, name |-> lead.name, has_email |-> lead.has_email,
   known |-> lead.known, status |-> "new", external_id |-> 0,
   synced |-> FALSE, sync_error |-> 0]

NoResp ==
  [at |-> "none", code |-> 0, name |-> "none", has_email |-> FALSE,
   status |-> "none"]

\* The bodies clients post: a name, with or without an email, the email
\* new to the external CRM or that of a contact it has.
LeadPayloads ==
  {[name |-> "n1", has_email |-> TRUE, known |-> FALSE],
   [name |-> "n2", has_email |-> FALSE, known |-> FALSE],
   [name |-> "n1", has_email |-> TRUE, known |-> TRUE]}

NoRead == [op |-> "none"]

\* A returned SyncResponse: HTTP 200 whatever `success` says.
SyncResponse(success, message) ==
  [code |-> 200, success |-> success, message |-> message]

InitCrmWith(providers) ==
  /\ crmProvider \in providers
  /\ leadMapping \in {LeadColumns, LeadColumns \cup SyncColumns}
  /\ leads = [l \in LeadIds |-> NoLead]
  /\ resp = [l \in LeadIds |-> NoResp]
  /\ bgpc = [l \in LeadIds |-> "none"]
  /\ scheduled = [l \in LeadIds |-> 0]
  /\ created = [l \in LeadIds |-> 0]
  /\ bgCalls = [l \in LeadIds |-> 0]
  /\ notified = [l \in LeadIds |-> 0]
  /\ syncs = 0
  /\ syncResp = [l \in LeadIds |->
                  [code |-> 0, success |-> FALSE, message |-> "none"]]
  /\ syncAllResp = [code |-> 0, results |-> [l \in LeadIds |-> "none"]]
  /\ leadLog = [l \in LeadIds |->
                  [patches |-> 0, deleted |-> FALSE, calls |-> 0, via |-> "none",
                   call |-> "none", raised |-> 0]]
  /\ readResp = NoRead

IdleCrm ==
  /\ InitCrmWith({"none"})
  /\ leadMapping = LeadColumns

\* lead.<col> of a mapped instance: an attribute the mapping lacks raises
\* AttributeError.
HasColumn(col) == col \in leadMapping

\* crm.search_contact(email): a contact with that email, or None (0) when
\* there is none or the call fails.  Leads have distinct emails; the contact
\* the CRM had before is contact -1, those created for the lead are 1, 2, ...
search_contact(l) ==
  IF ~leads[l].has_email THEN {0}
  ELSE (0..created[l]) \cup (IF leads[l].known THEN {-1} ELSE {})

\* crm.create_contact(lead_data): a new contact, or an exception (ok false).
\* HubSpot answers 409 for an email it already has, and the adapter then
\* returns the contact it finds, or re-raises.
create_contact(l, ok) ==
  IF ~ok THEN [call |-> "create_contact", ok |-> FALSE, id |-> 0, new |-> FALSE]
  ELSE IF crmProvider = "hubspot" /\ leads[l].has_email
            /\ (created[l] > 0 \/ leads[l].known)
    THEN [call |-> "create_contact", ok |-> TRUE,
          id |-> IF leads[l].known THEN -1 ELSE 1, new |-> FALSE]
  ELSE [call |-> "create_contact", ok |-> TRUE, id |-> created[l] + 1,
        new |-> TRUE]

\* A re-sync that makes a new contact for a lead that has one.
create_again(external_id, ok) ==
  IF ok THEN [call |-> "create_contact", ok |-> TRUE, id |-> external_id + 1,
              new |-> TRUE]
  ELSE [call |-> "create_contact", ok |-> FALSE, id |-> 0, new |-> FALSE]

\* A link that records the contact without the time of the sync.
linked_without_stamp(row, id) ==
  [row EXCEPT !.external_id = id, !.sync_error = 0]

\* crm.update_contact(external_id, lead_data): the contact with its id as
\* the adapter returns it, or an exception (ok false); no contact is made.
update_contact(external_id, ok) ==
  IF ok THEN [call |-> "update_contact", ok |-> TRUE, id |-> external_id,
              new |-> FALSE]
  ELSE [call |-> "update_contact", ok |-> FALSE, id |-> 0, new |-> FALSE]

\* lead.external_id / provider / synced_at set, sync_error = None, db.commit().
Linked(row, id) ==
  [row EXCEPT !.external_id = id, !.synced = TRUE, !.sync_error = 0]

\* A text is kept as its length; sync_error 0 is None.
\* str(e) of what an adapter call raises: a short message, and one of an
\* API error that carries the response, longer than the limit.
AdapterErrors == {Len("connection refused"), SYNC_ERROR_LIMIT + 1}

\* str(e) of the AttributeError a mapping without the column raises.
AttributeErrorText == Len("'Lead' object has no attribute 'external_id'")

\* An except branch that stores the whole text.
whole_text(n) == n

\* str(e)[:500]
truncated(n) == IF n > SYNC_ERROR_LIMIT THEN SYNC_ERROR_LIMIT ELSE n

\* lead.sync_error = str(e)[:500]; db.commit(): persisted only when the
\* mapping has the column.
Failed(row, e) ==
  IF HasColumn("sync_error") THEN [row EXCEPT !.sync_error = truncated(e)] ELSE row

\* The answer of a GET or a PATCH is delivered before the next request to
\* the lead endpoints is handled.
Idle == readResp = NoRead

\* POST /leads: persist, schedule the background sync, return the lead; or
\* roll back and answer 500.
create_lead(l) ==
  /\ Idle
  /\ resp[l].at = "none"
  /\ \A k \in LeadIds : k < l => resp[k].at # "none"
  /\ \E lead \in LeadPayloads, ok \in BOOLEAN :
       IF ok
         THEN /\ leads' = [leads EXCEPT ![l] = NewLead(lead)]
              /\ scheduled' = [scheduled EXCEPT ![l] = @ + 1]
              /\ bgpc' = [bgpc EXCEPT ![l] = "queued"]
              /\ resp' = [resp EXCEPT ![l] =
                             [at |-> "returning", code |-> 201,
                              name |-> NewLead(lead).name,
                              has_email |-> NewLead(lead).has_email,
                              status |-> NewLead(lead).status]]
         ELSE /\ resp' = [resp EXCEPT ![l] = [NoResp EXCEPT !.at = "error",
                                                            !.code = 500]]
              /\ UNCHANGED <<leads, scheduled, bgpc>>
  /\ UNCHANGED <<toolVars, authVars, leadLog, readResp, crmProvider, leadMapping, created, bgCalls, notified, syncs,
                 syncResp, syncAllResp, convVars, browserVars>>

\* The 201 response goes out.
respond(l) ==
  /\ Idle
  /\ resp[l].at = "returning"
  /\ resp' = [resp EXCEPT ![l].at = "sent"]
  /\ UNCHANGED <<toolVars, authVars, leadLog, readResp, crmProvider, leadMapping, leads, bgpc, scheduled, created,
                 bgCalls, notified, syncs, syncResp, syncAllResp, convVars,
                 browserVars>>

\* A task handed to BackgroundTasks may start before the response is out.
BackgroundMayStartEarly(l) == resp[l].at \in {"returning", "sent"}

\* background_tasks.add_task: the task runs once the response has been sent.
BackgroundMayStart(l) == resp[l].at = "sent"

\* sync_lead_to_crm up to "Check if already synced".
bg_load(l) ==
  /\ bgpc[l] = "queued"
  /\ BackgroundMayStart(l)
  /\ IF ~leads[l].exists \/ crmProvider = "none"
       THEN /\ bgpc' = [bgpc EXCEPT ![l] = "done"]
            /\ UNCHANGED leads
     ELSE IF ~HasColumn("external_id")
       THEN /\ bgpc' = [bgpc EXCEPT ![l] = "done"]
            /\ leads' = [leads EXCEPT ![l] = Failed(@, AttributeErrorText)]
     ELSE IF leads[l].external_id # 0
       THEN /\ bgpc' = [bgpc EXCEPT ![l] = "done"]
            /\ UNCHANGED leads
     ELSE /\ bgpc' = [bgpc EXCEPT ![l] = "search"]
          /\ UNCHANGED leads
  /\ UNCHANGED <<toolVars, authVars, leadLog, readResp, crmProvider, leadMapping, resp, scheduled, created, bgCalls,
                 notified, syncs, syncResp, syncAllResp, convVars, browserVars>>

\* sync_lead_to_crm: the search, and the link to a contact it finds.
bg_search(l) ==
  /\ bgpc[l] = "search"
  /\ IF leads[l].has_email
       THEN \E found \in search_contact(l) :
              /\ bgCalls' = [bgCalls EXCEPT ![l] = @ + 1]
              /\ IF found # 0
                   THEN /\ leads' = [leads EXCEPT ![l] = Linked(@, found)]
                        /\ notified' = [notified EXCEPT ![l] = @ + 1]
                        /\ bgpc' = [bgpc EXCEPT ![l] = "done"]
                   ELSE /\ bgpc' = [bgpc EXCEPT ![l] = "create"]
                        /\ UNCHANGED <<leads, notified>>
       ELSE /\ bgpc' = [bgpc EXCEPT ![l] = "create"]
            /\ UNCHANGED <<leads, notified, bgCalls>>
  /\ UNCHANGED <<toolVars, authVars, leadLog, readResp, crmProvider, leadMapping, resp, scheduled, created, syncs,
                 syncResp, syncAllResp, convVars, browserVars>>

\* sync_lead_to_crm: create_contact, commit, notification; or the except
\* branch.
bg_create(l) ==
  /\ bgpc[l] = "create"
  /\ \E ok \in BOOLEAN, e \in AdapterErrors :
       LET o == create_contact(l, ok)
       IN
       /\ bgCalls' = [bgCalls EXCEPT ![l] = @ + 1]
       /\ leadLog' = [leadLog EXCEPT ![l].calls = @ + 1,
                                     ![l].via = "background",
                                     ![l].call = o.call,
                                     ![l].raised = IF o.ok THEN 0 ELSE e]
       /\ IF o.ok
            THEN /\ created' = [created EXCEPT ![l] = IF o.new THEN @ + 1 ELSE @]
                 /\ leads' = [leads EXCEPT ![l] = Linked(@, o.id)]
                 /\ notified' = [notified EXCEPT ![l] = @ + 1]
            ELSE /\ leads' = [leads EXCEPT ![l] = Failed(@, e)]
                 /\ UNCHANGED <<created, notified>>
  /\ bgpc' = [bgpc EXCEPT ![l] = "done"]
  /\ UNCHANGED <<toolVars, authVars, readResp, crmProvider, leadMapping, resp, scheduled, syncs, syncResp,
                 syncAllResp, convVars, browserVars>>

\* A sync_lead that enters its try block with no adapter: the call on None
\* raises and the except branch records the error on the lead.
fail_without_provider(l) ==
  [response |-> SyncResponse(FALSE, "sync_failed"),
   row |-> Failed(leads[l], AttributeErrorText)]

\* sync_lead when get_crm_client() returns None: the answer, and the lead's
\* row after it.
without_provider(l) ==
  [response |-> SyncResponse(FALSE, "no_provider"), row |-> leads[l]]

\* POST /leads/{lead_id}/sync, by a client that has the lead's id.
sync_lead(l) ==
  /\ Idle
  /\ resp[l].at = "sent"
  /\ syncs < MaxSyncs
  /\ syncs' = syncs + 1
  /\ IF crmProvider = "none"
       THEN /\ syncResp' = [syncResp EXCEPT ![l] = without_provider(l).response]
            /\ leads' = [leads EXCEPT ![l] = without_provider(l).row]
            /\ UNCHANGED <<created, leadLog>>
     ELSE IF ~HasColumn("external_id")
       THEN /\ syncResp' = [syncResp EXCEPT ![l] = SyncResponse(FALSE, "sync_failed")]
            /\ leads' = [leads EXCEPT ![l] = Failed(@, AttributeErrorText)]
            /\ UNCHANGED <<created, leadLog>>
     ELSE \E ok \in BOOLEAN, e \in AdapterErrors :
            LET o == IF leads[l].external_id # 0
                       THEN update_contact(leads[l].external_id, ok)
                       ELSE create_contact(l, ok)
            IN
            /\ syncResp' = [syncResp EXCEPT ![l] =
                               IF o.ok THEN SyncResponse(TRUE, "synced")
                               ELSE SyncResponse(FALSE, "sync_failed")]
            /\ created' = [created EXCEPT ![l] = IF o.new THEN @ + 1 ELSE @]
            /\ leadLog' = [leadLog EXCEPT ![l].calls = @ + 1,
                                          ![l].via = "manual",
                                          ![l].call = o.call,
                                          ![l].raised = IF o.ok THEN 0 ELSE e]
            /\ leads' = [leads EXCEPT ![l] =
                           IF o.ok THEN Linked(@, o.id) ELSE Failed(@, e)]
  /\ UNCHANGED <<toolVars, authVars, readResp, crmProvider, leadMapping, resp, bgpc, scheduled, bgCalls,
                 notified, syncAllResp, convVars, browserVars>>

\* POST /sync-all: create_contact for every lead without synced_at.
sync_all_unsynced ==
  /\ Idle
  /\ syncs < MaxSyncs
  /\ syncs' = syncs + 1
  /\ IF crmProvider = "none"
       THEN /\ syncAllResp' = [code |-> 400, results |-> [l \in LeadIds |-> "none"]]
            /\ UNCHANGED <<leads, created, leadLog>>
     ELSE IF ~HasColumn("synced_at")
       THEN /\ syncAllResp' = [code |-> 500, results |-> [l \in LeadIds |-> "none"]]
            /\ UNCHANGED <<leads, created, leadLog>>
     ELSE LET unsynced == {l \in LeadIds : leads[l].exists /\ ~leads[l].synced}
          IN \E oks \in [LeadIds -> BOOLEAN], es \in [LeadIds -> AdapterErrors] :
               LET o == [l \in LeadIds |-> create_contact(l, l \in unsynced /\ oks[l])]
               IN
               /\ \A l \in LeadIds \ unsynced : oks[l]
               /\ \A l \in LeadIds : (l \notin unsynced \/ oks[l]) => es[l] = SYNC_ERROR_LIMIT + 1
               /\ syncAllResp' =
                    [code |-> 200,
                     results |-> [l \in LeadIds |->
                                    IF l \notin unsynced THEN "none"
                                    ELSE IF o[l].ok THEN "synced" ELSE "failed"]]
               /\ created' = [l \in LeadIds |->
                                IF o[l].new THEN created[l] + 1 ELSE created[l]]
               /\ leadLog' = [l \in LeadIds |->
                                IF l \notin unsynced THEN leadLog[l]
                                ELSE [leadLog[l] EXCEPT
                                        !.calls = @ + 1,
                                        !.via = "batch",
                                        !.call = o[l].call,
                                        !.raised = IF o[l].ok THEN 0 ELSE es[l]]]
               /\ leads' = [l \in LeadIds |->
                              IF l \notin unsynced THEN leads[l]
                              ELSE IF o[l].ok THEN Linked(leads[l], o[l].id)
                              ELSE Failed(leads[l], es[l])]
  /\ UNCHANGED <<toolVars, authVars, readResp, crmProvider, leadMapping, resp, bgpc, scheduled, bgCalls,
                 notified, syncResp, convVars, browserVars>>

\* class LeadStatus.
StatusValues == {"new", "contacted", "qualified", "converted", "lost"}

\* The bodies of PATCH /leads/{id}: the fields that are set.
LeadPatches ==
  {[name |-> "unset", status |-> "contacted"],
   [name |-> "n3", status |-> "qualified"],
   [name |-> "n4", status |-> "unset"],
   [name |-> "n4", status |-> "archived"]}

\* The ids of the stored leads.
Stored == {l \in LeadIds : leads[l].exists}

\* GET /leads/{lead_id}, by a client that has the lead's id.
get_lead(l) ==
  /\ Idle
  /\ resp[l].at = "sent"
  /\ readResp' =
       IF leads[l].exists
         THEN [op |-> "get", lead |-> l, code |-> 200, name |-> leads[l].name,
               has_email |-> leads[l].has_email, status |-> leads[l].status,
               external_id |-> leads[l].external_id, synced |-> leads[l].synced,
               sync_error |-> leads[l].sync_error]
         ELSE [op |-> "get", lead |-> l, code |-> 404]
  /\ UNCHANGED <<toolVars, authVars, leadLog, crmProvider, leadMapping, leads, resp, bgpc,
                 scheduled, created, bgCalls, notified, syncs, syncResp,
                 syncAllResp, convVars, browserVars>>

\* The PATCHes applied so far to the leads of ids.
RECURSIVE Patches(_)
Patches(ids) ==
  IF ids = {} THEN 0
  ELSE LET l == CHOOSE k \in ids : TRUE
       IN leadLog[l].patches + Patches(ids \ {l})

\* An update that writes the row anew from the request.
replace_row(row, patch) ==
  [NewLead([name |-> patch.name, has_email |-> row.has_email,
            known |-> row.known])
     EXCEPT !.status = IF patch.status = "unset" THEN "new" ELSE patch.status]

\* update_lead's loop over the fields that are set.
apply_patch(row, patch) ==
  [row EXCEPT !.name = IF patch.name = "unset" THEN @ ELSE patch.name,
              !.status = IF patch.status = "unset" THEN @ ELSE patch.status]

\* LeadStatus(value) raises ValueError for a value that is not a member.
status_raises(patch) == patch.status \notin StatusValues \cup {"unset"}

\* PATCH /leads/{lead_id} on a stored lead (on any other id it answers 404
\* and changes nothing).  LeadUpdate takes any string as status; the
\* ValueError of the loop leaves the handler, nothing is committed and the
\* answer is 500.
update_lead(l) ==
  /\ Idle
  /\ resp[l].at = "sent"
  /\ leads[l].exists
  /\ Patches(LeadIds) < MaxPatches
  /\ \E patch \in LeadPatches :
       IF status_raises(patch)
         THEN /\ UNCHANGED leads
              /\ readResp' = [op |-> "patch", lead |-> l, sent |-> patch,
                              code |-> 500]
         ELSE /\ leads' = [leads EXCEPT ![l] = apply_patch(@, patch)]
              /\ readResp' = [op |-> "patch", lead |-> l, sent |-> patch,
                              code |-> 200]
  /\ leadLog' = [leadLog EXCEPT ![l].patches = @ + 1]
  /\ UNCHANGED <<toolVars, authVars, crmProvider, leadMapping, resp, bgpc, scheduled,
                 created, bgCalls, notified, syncs, syncResp, syncAllResp,
                 convVars, browserVars>>

\* A delete that only marks the row.
soft_delete(row) == [row EXCEPT !.status = "lost"]

\* db.delete(lead); db.commit().
delete_row(row) == NoLead

\* DELETE /leads/{lead_id} on a stored lead, answered 204 (on any other id
\* it answers 404 and changes nothing).
delete_lead(l) ==
  /\ Idle
  /\ resp[l].at = "sent"
  /\ leads[l].exists
  /\ leads' = [leads EXCEPT ![l] = delete_row(@)]
  /\ leadLog' = [leadLog EXCEPT ![l].deleted = TRUE]
  /\ UNCHANGED <<toolVars, authVars, readResp, crmProvider, leadMapping, resp, bgpc, scheduled,
                 created, bgCalls, notified, syncs, syncResp, syncAllResp,
                 convVars, browserVars>>

\* A list_leads that ignores its status parameter.
no_filter(status) == Stored

\* list_leads' query after `if status: query.filter(Lead.status == status)`;
\* "any" is a request without the parameter.
status_filter(status) ==
  IF status = "any" THEN Stored
  ELSE {l \in Stored : leads[l].status = status}

\* order_by(Lead.created_at.desc()): ids are given out in creation order.
RECURSIVE by_created_desc(_)
by_created_desc(ids) ==
  IF ids = {} THEN <<>>
  ELSE LET newest == CHOOSE l \in ids : \A k \in ids : k <= l
       IN <<newest>> \o by_created_desc(ids \ {newest})

\* list_leads for one request: the filters, the order, and the window of
\* .offset(skip).limit(limit).
\* Lead.synced_at of a mapping without the column raises AttributeError: the
\* answer is 500.
list_answer(status, synced, skip, limit) ==
  LET query == {l \in status_filter(status) :
                  synced = "any" \/ (synced = "true") = leads[l].synced}
  IN [op |-> "list", status |-> status, synced |-> synced, skip |-> skip,
      limit |-> limit,
      code |-> IF synced # "any" /\ ~HasColumn("synced_at") THEN 500 ELSE 200,
      rows |-> IF synced # "any" /\ ~HasColumn("synced_at") THEN <<>>
               ELSE LET rows == by_created_desc(query)
                    IN SubSeq(rows, skip + 1,
                              IF skip + limit < Len(rows) THEN skip + limit
                              ELSE Len(rows))]

\* GET /leads with or without a status, with the default window or a small
\* one, without the synced parameter.
list_leads ==
  /\ Idle
  /\ \E status \in (StatusValues \cup {"any"}), skip \in {0, 1}, limit \in {1, 100} :
       readResp' = list_answer(status, "any", skip, limit)
  /\ UNCHANGED <<toolVars, authVars, leadLog, crmProvider, leadMapping, leads, resp, bgpc,
                 scheduled, created, bgCalls, notified, syncs, syncResp,
                 syncAllResp, convVars, browserVars>>

\* GET /leads?synced=true or false, with or without a status, with the
\* default window.
list_synced ==
  /\ Idle
  /\ \E status \in (StatusValues \cup {"any"}), synced \in {"true", "false"} :
       readResp' = list_answer(status, synced, 0, 100)
  /\ UNCHANGED <<toolVars, authVars, leadLog, crmProvider, leadMapping, leads, resp, bgpc,
                 scheduled, created, bgCalls, notified, syncs, syncResp,
                 syncAllResp, convVars, browserVars>>

\* The answer of a GET or a PATCH reaches its client.
deliver_read ==
  /\ readResp # NoRead
  /\ readResp' = NoRead
  /\ UNCHANGED <<toolVars, authVars, leadLog, crmProvider, leadMapping, leads, resp, bgpc,
                 scheduled, created, bgCalls, notified, syncs, syncResp,
                 syncAllResp, convVars, browserVars>>

NextCrm ==
  \/ \E l \in LeadIds :
       \/ create_lead(l)
       \/ respond(l)
       \/ bg_load(l)
       \/ bg_search(l)
       \/ bg_create(l)
       \/ sync_lead(l)
  \/ sync_all_unsynced

(***************************************************************************)
(* Accounts and tokens of the conversation service (auth.py, main.py).     *)
(* A token is its payload and what its signature was made with; the clock  *)
(* counts hours.  The secret has a default that is in the source, so a     *)
(* client can also present a token signed with it that no endpoint issued. *)
(***************************************************************************)
JWT_EXPIRATION_HOURS == 24

\* No user id: verify_token's None, a payload without "sub".
Nobody == 0

NoToken == [sub |-> Nobody, iat |-> 0, exp |-> 0, sig |-> "absent"]
NoUser == [id |-> Nobody, email |-> "", name |-> ""]
NoAuthResp ==
  [op |-> "none", code |-> 0, email |-> "", token |-> NoToken,
   identity |-> Nobody, user |-> NoUser]

IdleAuth ==
  /\ users = <<>>
  /\ now = 0
  /\ issued = {}
  /\ authResp = NoAuthResp
  /\ wsToken = [c \in Conns |-> NoToken]
  /\ user_context = [c \in Conns |-> NoUser]
  /\ guests = 0

\* Time passes while no request is being answered.
Quiet == \A c \in Conns : pc[c] \in {"closed", "recv"} /\ inbox[c] = <<>>

Tick ==
  /\ authResp = NoAuthResp
  /\ Quiet
  /\ \E d \in {JWT_EXPIRATION_HOURS \div 2, JWT_EXPIRATION_HOURS \div 2 + 1} :
       /\ now + d <= MaxClock
       /\ now' = now + d
  /\ UNCHANGED <<users, issued, authResp, wsToken, user_context, guests,
                 convVars, browserVars, crmVars, toolVars>>

hash_password(password) == <<"bcrypt", password>>

create_access_token(user_id) ==
  [sub |-> user_id, iat |-> now, exp |-> now + JWT_EXPIRATION_HOURS,
   sig |-> "secret"]

never_expired(token) == FALSE

\* jose's _validate_exp: the token is refused once exp < now.
expired(token) == token.exp < now

\* jwt.decode checks the signature, then the expiry; every JWTError and a
\* payload without "sub" yield None.
verify_token(token) ==
  IF token.sig # "secret" THEN Nobody
  ELSE IF expired(token) THEN Nobody
  ELSE token.sub

\* What a client can put in a request: nothing, a string that is no token,
\* a token it was issued, such a token with its signature or its expiry
\* altered, a token signed with the secret that has no subject or names an
\* id that no row has.
Presentable ==
  {NoToken, [NoToken EXCEPT !.sig = "malformed"]} \cup issued
  \cup {[t EXCEPT !.sig = "altered"] : t \in issued}
  \cup {[t EXCEPT !.exp = now + JWT_EXPIRATION_HOURS, !.sig = "altered"] :
          t \in issued}
  \cup {create_access_token(u) : u \in {Nobody, Len(users) + 1}}

unchecked_user(user_id) == [id |-> user_id, email |-> "", name |-> ""]

\* db.query(User).filter(User.id == user_id).first()
lookup_user(user_id) ==
  IF user_id \in 1..Len(users)
    THEN [id |-> user_id, email |-> users[user_id].email,
          name |-> users[user_id].name]
    ELSE NoUser

get_current_user(token) ==
  IF token = NoToken THEN NoUser
  ELSE IF verify_token(token) = Nobody THEN NoUser
  ELSE lookup_user(verify_token(token))

\* GET /me
get_me ==
  /\ authResp = NoAuthResp
  /\ \E token \in Presentable :
       LET current_user == get_current_user(token)
       IN authResp' =
            [op |-> "me",
             code |-> IF current_user = NoUser THEN 401 ELSE 200,
             email |-> "", token |-> token,
             identity |-> IF token = NoToken THEN Nobody
                          ELSE verify_token(token),
             user |-> current_user]
  /\ UNCHANGED <<users, now, issued, wsToken, user_context, guests,
                 convVars, browserVars, crmVars, toolVars>>

RegPayloads ==
  {[email |-> "a@x", password |-> "p1", name |-> "n1"],
   [email |-> "a@x", password |-> "p2", name |-> "n2"],
   [email |-> "b@x", password |-> "p1", name |-> "n1"],
   [email |-> "c@x", password |-> "p1", name |-> "n3"]}

never_taken(email) == FALSE

\* db.query(User).filter(User.email == user_data.email).first()
email_taken(email) == \E i \in 1..Len(users) : users[i].email = email

\* POST /register.  The handler is a coroutine that never awaits, so it runs
\* from the query to the commit without another request in between.
register ==
  /\ authResp = NoAuthResp
  /\ \E user_data \in RegPayloads :
       IF email_taken(user_data.email)
         THEN /\ authResp' = [NoAuthResp EXCEPT !.op = "register", !.code = 400,
                                                !.email = user_data.email]
              /\ UNCHANGED <<users, issued>>
         ELSE /\ Len(users) < MaxUsers
              /\ users' = Append(users,
                                 [email |-> user_data.email,
                                  password_hash |-> hash_password(user_data.password),
                                  name |-> user_data.name])
              /\ issued' = issued \cup {create_access_token(Len(users) + 1)}
              /\ authResp' =
                   [op |-> "register", code |-> 201, email |-> user_data.email,
                    token |-> create_access_token(Len(users) + 1),
                    identity |-> Nobody,
                    user |-> [id |-> Len(users) + 1, email |-> user_data.email,
                              name |-> user_data.name]]
  /\ UNCHANGED <<now, wsToken, user_context, guests,
                 convVars, browserVars, crmVars, toolVars>>

\* The client receives the answer.
deliver_auth ==
  /\ authResp # NoAuthResp
  /\ authResp' = NoAuthResp
  /\ UNCHANGED <<users, now, issued, wsToken, user_context, guests,
                 convVars, browserVars, crmVars, toolVars>>

shared_thread(n) == GuestThread(1)

\* str(uuid.uuid4()): an identifier that was never drawn before.
fresh_thread(n) == GuestThread(n + 1)

\* websocket_endpoint up to its receive loop: accept, then bind the
\* connection to the user's thread or to a guest's.
ws_connect(c) ==
  /\ pc[c] = "closed"
  /\ c \in env.conns
  /\ authResp = NoAuthResp
  /\ Quiet
  /\ \E token \in Presentable :
       LET user_id == IF token = NoToken THEN Nobody ELSE verify_token(token)
           user == IF user_id = Nobody THEN NoUser ELSE lookup_user(user_id)
       IN /\ wsToken' = [wsToken EXCEPT ![c] = token]
          /\ user_context' = [user_context EXCEPT ![c] = user]
          /\ IF user # NoUser
               THEN /\ thread_id' = [thread_id EXCEPT ![c] = UserThread(user.id)]
                    /\ UNCHANGED guests
               ELSE /\ thread_id' = [thread_id EXCEPT ![c] = fresh_thread(guests)]
                    /\ guests' = guests + 1
  /\ pc' = [pc EXCEPT ![c] = "recv"]
  /\ UNCHANGED <<users, now, issued, authResp, env, checkpointer, store, cpLog,
                 inbox, typed, received, sent, turn, loop, streak,
                 browserVars, crmVars, toolVars>>

(***************************************************************************)
(* The save_lead tool of the conversation service (crm_tools.py).          *)
(***************************************************************************)
\* The tokens a lead is written with: a name, an address, a company, a
\* summary, a handle, another address.
LeadTokens ==
  [name |-> <<"J","a","n","e"," ","D","o","e">>,
   email |-> <<"j","a","n","e","@","a","c","m","e",".","c","o","m">>,
   company |-> <<"A","c","m","e">>,
   summary |-> <<"I","n","t","e","r","e","s","t","e","d"," ","i","n"," ","e","n","t","e","r","p","r","i","s","e">>,
   handle |-> <<"@","a","c","m","e">>,
   other |-> <<"b","o","b","@","x",".","i","o">>]

prefixes_to_strip ==
  << <<"s","a","v","e"," ","a"," ","l","e","a","d",":">>,
     <<"s","a","v","e"," ","l","e","a","d",":">>,
     <<"a","d","d"," ","a"," ","l","e","a","d",":">>,
     <<"a","d","d"," ","l","e","a","d",":">>,
     <<"c","r","e","a","t","e"," ","a"," ","l","e","a","d",":">>,
     <<"c","r","e","a","t","e"," ","l","e","a","d",":">>,
     <<"n","e","w"," ","l","e","a","d",":">> >>

\* str.split(sep)
RECURSIVE Split(_, _)
Split(text, sep) ==
  IF \A i \in 1..Len(text) : text[i] # sep THEN <<text>>
  ELSE LET k == CHOOSE i \in 1..Len(text) :
                  text[i] = sep /\ \A j \in 1..(i - 1) : text[j] # sep
       IN <<SubSeq(text, 1, k - 1)>> \o Split(SubSeq(text, k + 1, Len(text)), sep)

\* The character classes of email_pattern: [a-zA-Z0-9._%+-], [a-zA-Z0-9.-]
\* and [a-zA-Z].
EmailChars ==
  LET letters == DOMAIN UpperToLower
                   \cup {UpperToLower[x] : x \in DOMAIN UpperToLower}
      digits == {"0", "1", "2", "3", "4", "5", "6", "7", "8", "9"}
  IN [local |-> letters \cup digits \cup {".", "_", "%", "+", "-"},
      domain |-> letters \cup digits \cup {".", "-"},
      tld |-> letters]

never_matches(part) == FALSE

\* email_pattern.match(part): [a-zA-Z0-9._%+-]+@[a-zA-Z0-9.-]+\.[a-zA-Z]{2,}
\* at the start of part.
email_pattern_match(part) ==
  \E a \in 1..Len(part), b \in 1..Len(part) :
    /\ a + 2 <= b
    /\ b + 3 <= Len(part)
    /\ part[a + 1] = "@"
    /\ part[b + 1] = "."
    /\ \A i \in 1..a : part[i] \in EmailChars.local
    /\ \A i \in (a + 2)..b : part[i] \in EmailChars.domain
    /\ part[b + 2] \in EmailChars.tld
    /\ part[b + 3] \in EmailChars.tld

\* The loop over parts[1:].
RECURSIVE detect_fields(_, _)
detect_fields(lead_data, remaining) ==
  IF remaining = <<>> THEN lead_data
  ELSE LET part == Strip(Head(remaining))
           has(field) == field \in DOMAIN lead_data
           found ==
             IF email_pattern_match(part) /\ ~has("email")
               THEN lead_data @@ ("email" :> part)
             ELSE IF ~has("email") /\ Contains(part, <<"@">>)
               THEN lead_data @@ ("email" :> part)
             ELSE IF ~has("company") /\ ~email_pattern_match(part)
               THEN lead_data @@ ("company" :> part)
             ELSE IF ~has("summary")
               THEN lead_data @@ ("summary" :> part)
             ELSE lead_data
       IN detect_fields(found, Tail(remaining))

\* save_lead up to the request it posts.
parse_lead(text) ==
  LET quotes == {"'", "\""}
      bare == {i \in 1..Len(Strip(text)) : Strip(text)[i] \notin quotes}
      stripped ==
        IF bare = {} THEN <<>>
        ELSE SubSeq(Strip(text), CHOOSE i \in bare : \A j \in bare : i <= j,
                                 CHOOSE i \in bare : \A j \in bare : j <= i)
      hits == {k \in 1..Len(prefixes_to_strip) :
                 IsPrefix(prefixes_to_strip[k], Lower(stripped))}
      input_str ==
        IF hits = {} THEN stripped
        ELSE LET prefix == prefixes_to_strip[CHOOSE k \in hits : \A j \in hits : k <= j]
             IN Strip(SubSeq(stripped, Len(prefix) + 1, Len(stripped)))
      raw == IF Contains(input_str, <<"|">>) THEN Split(input_str, "|")
             ELSE Split(input_str, ",")
      parts == [i \in 1..Len(raw) |-> Strip(raw[i])]
      lead_data == detect_fields("name" :> parts[1], Tail(parts))
  IN IF Len(parts) >= 4 /\ "email" \notin DOMAIN lead_data
       THEN ("email" :> parts[2]) @@ ("company" :> parts[3])
              @@ ("summary" :> parts[4]) @@ lead_data
       ELSE lead_data

\* The agent calls the tool with a text: tokens put together with a
\* delimiter, blanks around it, quotes around the text, a prefix before it.
tool_input ==
  /\ toolCall.at = "idle"
  /\ \E n \in 1..MaxTokens,
        format \in {[sep |-> "|", pad |-> <<>>, quote |-> <<>>, prefix |-> <<>>],
                    [sep |-> ",", pad |-> <<" ">>, quote |-> <<"'">>,
                     prefix |-> <<"S","a","v","e"," ","L","e","a","d",":"," ">>]} :
       \E tokens \in [1..n -> {LeadTokens[f] : f \in DOMAIN LeadTokens}] :
         LET RECURSIVE Join(_)
             Join(ts) ==
               IF Len(ts) = 1 THEN ts[1]
               ELSE ts[1] \o format.pad \o <<format.sep>> \o format.pad
                      \o Join(Tail(ts))
         IN toolCall' = [toolCall EXCEPT
                           !.at = "called", !.tokens = tokens,
                           !.input_str = format.quote \o format.prefix
                                           \o Join(tokens) \o format.quote]
  /\ UNCHANGED <<enrich, convVars, browserVars, crmVars, authVars>>

\* save_lead up to its request to POST /leads.
save_lead ==
  /\ toolCall.at = "called"
  /\ toolCall' = [toolCall EXCEPT !.at = "posting",
                                  !.lead_data = parse_lead(toolCall.input_str)]
  /\ UNCHANGED <<enrich, convVars, browserVars, crmVars, authVars>>

\* The request succeeds or raises, and raises for an empty name; save_lead
\* returns a confirmation or an error message.
save_lead_result ==
  /\ toolCall.at = "posting"
  /\ \E posted \in BOOLEAN :
       toolCall' = [toolCall EXCEPT
                      !.at = "done",
                      !.reply = IF posted /\ toolCall.lead_data["name"] # <<>>
                                  THEN "saved" ELSE "error"]
  /\ UNCHANGED <<enrich, convVars, browserVars, crmVars, authVars>>

\* The agent has the tool's answer.
tool_return ==
  /\ toolCall.at = "done"
  /\ toolCall' = [at |-> "idle", tokens |-> <<>>, input_str |-> <<>>,
                  lead_data |-> "name" :> <<>>, reply |-> "none"]
  /\ UNCHANGED <<enrich, convVars, browserVars, crmVars, authVars>>

(***************************************************************************)
(* Smart browser tools of the conversation service (tools.py): the click   *)
(* and type tools that guess a selector.                                   *)
(***************************************************************************)
\* The timeout of a guessed selector and that of a given one, in ms.
FAST_FAIL_TIMEOUT == 500
NORMAL_TIMEOUT == 3000

\* The texts of the smart tools: inputs, results, replies.
SmartTexts ==
  [successfully |->
     <<"S","u","c","c","e","s","s","f","u","l","l","y">>,
   search |->
     <<"s","e","a","r","c","h">>,
   quoted_search |->
     <<"'","S","e","a","r","c","h","'">>,
   search_button |->
     <<"s","e","a","r","c","h"," ","b","u","t","t","o","n">>,
   search_id |->
     <<"#","s","e","a","r","c","h","-","b","t","n">>,
   submit |->
     <<"s","u","b","m","i","t">>,
   cats |->
     <<"c","a","t","s">>,
   quoted_cats |->
     <<" ","\"","c","a","t","s","\""," ">>,
   selector_cats |->
     <<"i","n","p","u","t","#","q","|","c","a","t","s">>,
   success_clicked |->
     <<"S","u","c","c","e","s","s","f","u","l","l","y"," ","c","l","i","c","k","e","d"," ","e","l","e","m","e","n","t",".">>,
   success_typed |->
     <<"S","u","c","c","e","s","s","f","u","l","l","y"," ","t","y","p","e","d">>,
   failed_click |->
     <<"F","a","i","l","e","d"," ","t","o"," ","c","l","i","c","k",":"," ">>,
   failed_type |->
     <<"F","a","i","l","e","d"," ","t","o"," ","t","y","p","e",":"," ">>,
   error_click |->
     <<"E","r","r","o","r"," ","c","l","i","c","k","i","n","g"," ">>,
   error_type |->
     <<"E","r","r","o","r"," ","t","y","p","i","n","g"," ","i","n","t","o"," ">>,
   could_not_find |->
     <<"C","o","u","l","d"," ","n","o","t"," ","f","i","n","d">>]

\* The lists of _smart_click and of _smart_type, in their order.
search_selectors ==
  << "button#search-icon-legacy", "button[aria-label=\"Search\"]",
     "input[type=\"submit\"]", "button[type=\"submit\"]",
     "button[aria-label=\"Google Search\"]" >>

common_selectors ==
  << "input[name=\"search_query\"]", "textarea[name=\"q\"]",
     "input[name=\"q\"]", "input[type=\"search\"]",
     "input[placeholder*=\"earch\"]" >>

\* What click_element and type_into_field return: the success text, the text
\* for an answer without success, the text of the except branch.
tool_result(tool, outcome) ==
  CASE outcome = "ok" ->
         IF tool = "click" THEN SmartTexts.success_clicked ELSE SmartTexts.success_typed
    [] outcome = "failed" ->
         IF tool = "click" THEN SmartTexts.failed_click ELSE SmartTexts.failed_type
    [] OTHER ->
         IF tool = "click" THEN SmartTexts.error_click ELSE SmartTexts.error_type

\* A loop that goes on to the next selector whatever the result.
found_nothing(answer) == FALSE

\* `"Successfully" in result`
found(answer) == Contains(answer, SmartTexts.successfully)

\* The branch _smart_click and _smart_type take: the input is the selector
\* (or selector|text), used with the normal timeout, or the selectors of the
\* list are guessed.
smart_plan(tool, input) ==
  LET text == Strip(input)
      keep == {i \in 1..Len(text) : text[i] \notin {"'", "\""}}
      \* input_str.strip().strip("'\"")
      input_str == IF keep = {} THEN <<>>
                   ELSE SubSeq(text, CHOOSE i \in keep : \A j \in keep : i <= j,
                                     CHOOSE i \in keep : \A j \in keep : j <= i)
      plan(mode, selectors) ==
        [input_str |-> input_str, mode |-> mode, selectors |-> selectors]
  IN IF tool = "click"
       THEN IF \E i \in 1..Len(input_str) :
                 input_str[i] \in {"#", ".", "[", "]", ">", " "}
              THEN plan("direct", <<"input_str">>)
            ELSE IF Contains(Lower(input_str), SmartTexts.search)
              THEN plan("guess", search_selectors)
            ELSE plan("direct", <<"input_str">>)
     ELSE IF Contains(input_str, <<"|">>)
       THEN plan("direct", <<"parts[0]">>)
     ELSE plan("guess", common_selectors)

NoSmartCall ==
  [at |-> "idle", tool |-> "none", input |-> <<>>,
   plan |-> [input_str |-> <<>>, mode |-> "none", selectors |-> <<>>],
   tried |-> <<>>,
   reply |-> <<>>]

\* The tool is called with what the agent or the navigate node passes: a
\* click target that names the search button in one word, quoted, in several
\* words or as a selector, or names something else; a text to type, bare,
\* quoted or with a selector before a pipe.
smart_call ==
  /\ toolCall.at = "idle"
  /\ \E call \in
        {[tool |-> "click", input |-> SmartTexts.search],
         [tool |-> "click", input |-> SmartTexts.quoted_search],
         [tool |-> "click", input |-> SmartTexts.search_button],
         [tool |-> "click", input |-> SmartTexts.search_id],
         [tool |-> "click", input |-> SmartTexts.submit],
         [tool |-> "type", input |-> SmartTexts.cats],
         [tool |-> "type", input |-> SmartTexts.quoted_cats],
         [tool |-> "type", input |-> SmartTexts.selector_cats]} :
       toolCall' = [NoSmartCall EXCEPT
                      !.at = "running", !.tool = call.tool, !.input = call.input,
                      !.plan = smart_plan(call.tool, call.input)]
  /\ UNCHANGED <<enrich, convVars, browserVars, crmVars, authVars>>

\* One call of click_element or type_into_field: the only one of a direct
\* plan, whose result is returned as it is; or the next of the loop, which
\* returns on a result that has "Successfully" in it and, after the last
\* selector, returns the not-found text.
smart_attempt ==
  /\ toolCall.at = "running"
  /\ \E outcome \in {"ok", "failed", "error"} :
       LET plan == toolCall.plan
           i == Len(toolCall.tried) + 1
           answer == tool_result(toolCall.tool, outcome)
           attempt == [selector |-> plan.selectors[i],
                       timeout |-> IF plan.mode = "direct" THEN NORMAL_TIMEOUT
                                   ELSE FAST_FAIL_TIMEOUT,
                       outcome |-> outcome]
       IN toolCall' =
            [toolCall EXCEPT
               !.tried = Append(@, attempt),
               !.at = IF plan.mode = "direct" \/ found(answer)
                           \/ i = Len(plan.selectors)
                        THEN "done" ELSE "running",
               !.reply = IF plan.mode = "direct" \/ found(answer) THEN answer
                         ELSE IF i = Len(plan.selectors) THEN SmartTexts.could_not_find
                         ELSE @]
  /\ UNCHANGED <<enrich, convVars, browserVars, crmVars, authVars>>

\* The caller has the tool's answer.
smart_return ==
  /\ toolCall.at = "done"
  /\ toolCall' = NoSmartCall
  /\ UNCHANGED <<enrich, convVars, browserVars, crmVars, authVars>>

(***************************************************************************)
(* Enrichment service (enrichment_service/app/main.py, search.py).         *)
(***************************************************************************)
\* MOCK_COMPANY_DATA, in the order of the dictionary.
MOCK_COMPANY_DATA ==
  << [key |-> <<"o","p","e","n","a","i">>,
      results |-> << [title |-> "OpenAI - Official Website", url |-> "https://openai.com", about |-> <<>>, q |-> <<>>],
                     [title |-> "OpenAI - Wikipedia", url |-> "https://en.wikipedia.org/wiki/OpenAI", about |-> <<>>, q |-> <<>>] >>],
     [key |-> <<"m","i","c","r","o","s","o","f","t">>,
      results |-> << [title |-> "Microsoft Corporation", url |-> "https://microsoft.com", about |-> <<>>, q |-> <<>>] >>],
     [key |-> <<"g","o","o","g","l","e">>,
      results |-> << [title |-> "Google - About", url |-> "https://about.google", about |-> <<>>, q |-> <<>>] >>] >>

\* The queries clients send.
Queries ==
  {<<"O","p","e","n","A","I">>,
   <<" ","o","p","e","n","a","i"," ","i","n","c"," ">>,
   <<"G","o","o","g","l","e"," ","v","s"," ","O","p","e","n","A","I">>,
   <<"M","I","C","R","O","S","O","F","T">>,
   <<"m","i","c","r","o","s","o","f","t"," ","g","o","o","g","l","e">>,
   <<"a","c","m","e"," ","c","o","r","p">>,
   <<>>,
   <<"o","p","e","n"," ","a","i">>,
   <<"g","o","o"," ","g","l","e">>,
   <<"G","o","o","g","o","l">>,
   <<"x">>,
   <<"m","y"," ","G","o","o","g","l","e">>,
   <<"O","P","E","N","A","I","!">>}


IdleTools ==
  /\ enrich = [query |-> <<>>,
               outcome |-> [installed |-> FALSE, hits |-> 0, raised |-> FALSE],
               code |-> 0, results |-> <<>>, summary |-> "none"]
  /\ toolCall = [at |-> "idle", tokens |-> <<>>, input_str |-> <<>>,
                 lead_data |-> "name" :> <<>>, reply |-> "none"]

no_mock(query_lower) == {}

\* The keys of MOCK_COMPANY_DATA that are in query_lower.
mock_keys(query_lower) ==
  {i \in 1..Len(MOCK_COMPANY_DATA) : Contains(query_lower, MOCK_COMPANY_DATA[i].key)}

search_company_info(query, outcome) ==
  LET query_lower == Strip(Lower(query))
      plus == [i \in 1..Len(query) |-> IF query[i] = " " THEN "+" ELSE query[i]]
      live == [i \in 1..outcome.hits |->
                [title |-> "live", url |-> ToString(i), about |-> <<>>, q |-> <<>>]]
      keys == mock_keys(query_lower)
  IN IF outcome.installed /\ ~outcome.raised /\ live # <<>> THEN live
     ELSE IF keys # {}
       THEN MOCK_COMPANY_DATA[CHOOSE i \in keys : \A j \in keys : i <= j].results
     ELSE << [title |-> "Search results for", about |-> query,
              url |-> "https://www.google.com/search?q=", q |-> plus] >>

\* POST /enrich
enrich_company ==
  /\ \E query \in Queries,
        outcome \in [installed : BOOLEAN, hits : 0..MaxHits, raised : BOOLEAN] :
       LET results == search_company_info(query, outcome)
       IN enrich' =
            [query |-> query, outcome |-> outcome, code |-> 200,
             results |-> results,
             summary |-> IF results # <<>> THEN "found" ELSE "no results"]
  /\ UNCHANGED <<toolCall, convVars, browserVars, crmVars, authVars>>

(***************************************************************************)
(* Specifications.                                                         *)
(***************************************************************************)
vars == <<convVars, browserVars, crmVars, authVars, toolVars>>

\* The environments of the runs:
\*  none: nobody connects;
\*  demo: one connection, every text of AllTexts, a client that waits for
\*   each reply;
\*  ws: two connections, clients that do not wait for replies;
\*  faulty: one connection, every answer of the classifier, a client that
\*   does not wait, a checkpoint database that can fail;
\*  connect: two connections that are not open yet, a client that waits
\*   for each reply, a classifier that answers "chat".
Envs ==
  [none |->
     [conns |-> {}, texts |-> {}, llm |-> {LlmFailure}, patient |-> TRUE,
       maxTurns |-> 0, faults |-> FALSE],
   demo |->
     [conns |-> {"c1"}, texts |-> AllTexts, llm |-> LlmAnswers, patient |-> TRUE,
       maxTurns |-> MaxTurns, faults |-> FALSE],
   ws |->
     [conns |-> Conns, texts |-> {UserTexts.hello, UserTexts.start, UserTexts.stop},
       llm |-> {LlmFailure, [ok |-> TRUE, content |-> Intents.start_demo],
                [ok |-> TRUE, content |-> Intents.chat]},
       patient |-> FALSE, maxTurns |-> MaxWsTurns, faults |-> FALSE],
   faulty |->
     [conns |-> {"c1"}, texts |-> {UserTexts.hello, UserTexts.start, UserTexts.stop}, llm |-> LlmAnswers,
       patient |-> FALSE, maxTurns |-> MaxWsTurns, faults |-> TRUE],
   connect |->
     [conns |-> Conns, texts |-> {UserTexts.hello},
       llm |-> {[ok |-> TRUE, content |-> Intents.chat]}, patient |-> TRUE,
       maxTurns |-> Cardinality(Conns), faults |-> FALSE]]

IdleConv ==
  /\ InitConv(Envs.none, {FALSE})
  /\ thread_id = [c \in Conns |-> "t1"]

\* The services together at the start: the conversation service, the browser
\* service, the lead service and the tools as given, no account.
Start(conv, browser, crm, tools) ==
  /\ conv
  /\ browser
  /\ crm
  /\ IdleAuth
  /\ tools

SpecDemo ==
  /\ Start(InitConv(Envs.demo, {TRUE}) /\ thread_id["c1"] = "t1",
           IdleBrowser, IdleCrm, IdleTools)
  /\ [][NextConv]_vars

SpecWs ==
  /\ Start(InitConv(Envs.ws, BOOLEAN) /\ thread_id["c1"] = "t1",
           IdleBrowser, IdleCrm, IdleTools)
  /\ [][NextConv]_vars

\* The router as a function: one classifier answer per run, and a state at the
\* router's entry drawn from lists that are empty, end with the user's
\* message or end with the agent's, with no demo, a finished one or an active
\* one.
RouterEnvs ==
  {[conns |-> {"c1"}, texts |-> {}, llm |-> {a}, patient |-> TRUE,
    maxTurns |-> 0, faults |-> FALSE] : a \in LlmAnswers}

RouterInputs ==
  {[EmptyState EXCEPT !.messages = m, !.last_content = x, !.demo = d] :
     m \in {<<>>,
            <<HumanMessage("c1", 1)>>,
            <<HumanMessage("c1", 1), AIMessage("c1", 1)>>,
            <<HumanMessage("c1", 1), AIMessage("c1", 1), HumanMessage("c1", 2)>>},
     x \in {UserTexts.hello, UserTexts.demo},
     d \in {NoDemo, MkDemo(FALSE, 0, "", FALSE, 0),
            MkDemo(TRUE, 1, "youtube", TRUE, 0)}}

InitRouter ==
  /\ env \in RouterEnvs
  /\ checkpointer = FALSE
  /\ store = [t \in AllThreads |-> EmptyCheckpoint]
  /\ cpLog = [t \in AllThreads |-> <<>>]
  /\ pc = [c \in Conns |-> IF c = "c1" THEN "route" ELSE "closed"]
  /\ thread_id = [c \in Conns |-> "t1"]
  /\ inbox = [c \in Conns |-> <<>>]
  /\ typed = [c \in Conns |-> 0]
  /\ received = [c \in Conns |-> 0]
  /\ sent = [c \in Conns |-> <<>>]
  /\ \E st \in RouterInputs :
       turn = [c \in Conns |->
                 IF c = "c1"
                   THEN [IdleTurn EXCEPT !.state = st, !.loaded = st.demo,
                                         !.input = st.last_content]
                   ELSE IdleTurn]
  /\ loop = "c1"
  /\ streak = [t \in AllThreads |-> NoStreak]
  /\ IdleBrowser
  /\ IdleCrm
  /\ IdleAuth
  /\ IdleTools

SpecRouter == InitRouter /\ [][\E c \in Conns : Route(c)]_vars

\* The turns with a checkpoint database that can fail during a run.
SpecFaulty ==
  /\ Start(InitConv(Envs.faulty, {TRUE}) /\ thread_id = [c \in Conns |-> "t1"],
           IdleBrowser, IdleCrm, IdleTools)
  /\ [][NextConv \/ \E c \in Conns : Raise(c)]_vars

SpecBrowser ==
  /\ Start(IdleConv, InitBrowser, IdleCrm, IdleTools)
  /\ [][\E r \in Reqs : BrowserStep(r)]_vars

\* The event loop runs every coroutine that can run: a request that can
\* take a step is not left out for ever.
SpecBrowserFair ==
  SpecBrowser /\ \A r \in Reqs : WF_vars(BrowserStep(r))

SpecCrm ==
  /\ Start(IdleConv, IdleBrowser, InitCrmWith({"none", "hubspot", "salesforce"}),
           IdleTools)
  /\ [][NextCrm]_vars

\* The lead endpoints, without the sync endpoints and the background task.
SpecLeads ==
  /\ Start(IdleConv, IdleBrowser, IdleCrm, IdleTools)
  /\ [][\/ \E l \in LeadIds :
             \/ create_lead(l)
             \/ respond(l)
             \/ get_lead(l)
             \/ update_lead(l)
             \/ delete_lead(l)
        \/ list_leads
        \/ deliver_read]_vars

\* The sync paths together with the reads of the leads.
SpecSync ==
  /\ Start(IdleConv, IdleBrowser, InitCrmWith({"hubspot"}), IdleTools)
  /\ [][\/ NextCrm
        \/ \E l \in LeadIds : get_lead(l)
        \/ list_synced
        \/ deliver_read]_vars

\* The sync paths together with up to MaxSyncPatches PATCHes.
SpecPatch ==
  /\ Start(IdleConv, IdleBrowser, InitCrmWith({"hubspot"}), IdleTools)
  /\ [][\/ NextCrm
        \/ \E l \in LeadIds :
             Patches(LeadIds) < MaxSyncPatches /\ update_lead(l)
        \/ deliver_read]_vars

SpecAuth ==
  /\ Start(IdleConv, IdleBrowser, IdleCrm, IdleTools)
  /\ [][register \/ get_me \/ Tick \/ deliver_auth]_vars

InitConnect ==
  /\ env = Envs.connect
  /\ checkpointer = TRUE
  /\ store = [t \in AllThreads |-> EmptyCheckpoint]
  /\ cpLog = [t \in AllThreads |-> <<>>]
  /\ pc = [c \in Conns |-> "closed"]
  /\ thread_id = [c \in Conns |-> "t1"]
  /\ inbox = [c \in Conns |-> <<>>]
  /\ typed = [c \in Conns |-> 0]
  /\ received = [c \in Conns |-> 0]
  /\ sent = [c \in Conns |-> <<>>]
  /\ turn = [c \in Conns |-> IdleTurn]
  /\ loop = NoConn
  /\ streak = [t \in AllThreads |-> NoStreak]
  /\ IdleBrowser
  /\ IdleCrm
  /\ \E n \in 0..MaxUsers :
       /\ users = [i \in 1..n |->
                    [email |-> "u" \o ToString(i) \o "@x",
                     password_hash |-> hash_password("p1"),
                     name |-> "n" \o ToString(i)]]
       /\ issued = {[sub |-> i, iat |-> 0, exp |-> JWT_EXPIRATION_HOURS,
                     sig |-> "secret"] : i \in 1..n}
  /\ now = 0
  /\ authResp = NoAuthResp
  /\ wsToken = [c \in Conns |-> NoToken]
  /\ user_context = [c \in Conns |-> NoUser]
  /\ guests = 0
  /\ IdleTools

SpecConnect ==
  InitConnect /\ [][\/ Tick
                    \/ \E c \in Conns :
                         \/ ws_connect(c)
                         \/ ClientSend(c)
                         \/ Receive(c)
                         \/ LoadInput(c)
                         \/ Route(c)
                         \/ RunNode(c)
                         \/ Send(c)]_vars

\* The smart tools alone: no connection, no request, no adapter, no account.
SpecSmart ==
  /\ Start(IdleConv, IdleBrowser, IdleCrm,
           /\ enrich = [query |-> <<>>,
                        outcome |-> [installed |-> FALSE, hits |-> 0,
                                     raised |-> FALSE],
                        code |-> 0, results |-> <<>>, summary |-> "none"]
           /\ toolCall = NoSmartCall)
  /\ [][smart_call \/ smart_attempt \/ smart_return]_vars

SpecEnrich ==
  /\ Start(IdleConv, IdleBrowser, IdleCrm, IdleTools)
  /\ [][enrich_company]_vars

SpecSaveLead ==
  /\ Start(IdleConv, IdleBrowser, IdleCrm, IdleTools)
  /\ [][tool_input \/ save_lead \/ save_lead_result \/ tool_return]_vars

Spec == SpecDemo

(***************************************************************************)
(* Properties.                                                             *)
(***************************************************************************)

\* The turn of connection c has run its node and is about to send the reply.
TurnDone(c) == pc[c] = "send" /\ turn[c].raised = "none"

\* The turn of c started from an active demo that awaited confirmation.
AwaitingTurn(c) ==
  /\ TurnDone(c)
  /\ turn[c].loaded.is_active
  /\ turn[c].loaded.awaiting_confirmation

Affirmatives ==
  {<<"y","e","s">>, <<"y","e","a","h">>, <<"y","e","p">>, <<"o","k">>,
   <<"o","k","a","y">>, <<"s","u","r","e">>, <<"s","t","a","r","t">>, <<"g","o">>,
   <<"c","o","n","t","i","n","u","e">>, <<"n","e","x","t">>}

CancelWords ==
  {<<"n","o">>, <<"s","t","o","p">>, <<"c","a","n","c","e","l">>,
   <<"e","x","i","t">>, <<"q","u","i","t">>}

Says(c, words) == \E w \in words : Contains(Lower(turn[c].input), w)

\* C1: whenever the demo state a turn loaded is active, the router's hint is
\* "demo", the classifier is not consulted, and the node that runs the turn
\* is the demo node, whatever the message says.
C1_ActiveDemoRoutesToDemoNode ==
  \A c \in Conns :
    ((pc[c] = "node" \/ TurnDone(c)) /\ turn[c].loaded.is_active) =>
      /\ turn[c].state.next_action = "demo"
      /\ ~turn[c].classified
      /\ TurnDone(c) => turn[c].node = "demo_workflow"

\* C1: a turn on an active demo whose message is small talk was run by the
\* demo node.
C1_Witness ==
  /\ TurnDone("c1")
  /\ turn["c1"].loaded.is_active
  /\ turn["c1"].input = UserTexts.hello
  /\ turn["c1"].node = "demo_workflow"
  /\ ~turn["c1"].classified

\* C2: when the demo is active and awaits confirmation at step s, a message
\* containing an affirmative word makes the turn execute the action of step
\* s+1 with a cleared retry count; the demo is left at step s+1 when that
\* step waits for the user or failed (so "start" at step 0 leaves it at step
\* 1 after the navigate action), and past it when the step needs no
\* confirmation.
C2_ConfirmAdvancesAndExecutes ==
  \A c \in Conns :
    (AwaitingTurn(c) /\ Says(c, Affirmatives)) =>
      LET s == turn[c].loaded.step
          info == DEMO_STEPS[s + 1]
          demo == turn[c].state.demo
      IN /\ s + 1 \in DOMAIN DEMO_STEPS
         /\ info.action # "none"
         /\ turn[c].exec.step = s + 1
         /\ turn[c].exec.action = info.action
         /\ turn[c].exec.attempt = 0
         /\ demo.retry_count = (IF turn[c].exec.failed THEN 1 ELSE 0)
         /\ demo.step = (IF turn[c].exec.failed \/ info.awaits_confirmation
                           THEN s + 1 ELSE s + 2)
         /\ s = 0 => turn[c].exec.action = "navigate_youtube" /\ demo.step = 1

\* C2: "start" at step 0 ran the navigate action and left the demo at step 1.
C2_Witness ==
  /\ AwaitingTurn("c1")
  /\ turn["c1"].loaded.step = 0
  /\ turn["c1"].input = UserTexts.start
  /\ turn["c1"].exec.action = "navigate_youtube"
  /\ ~turn["c1"].exec.failed
  /\ turn["c1"].state.demo.step = 1
  /\ turn["c1"].state.demo.retry_count = 0

\* C3: when the demo is active and awaits confirmation, a message with a
\* cancel word and no affirmative word or "skip" leaves the demo inactive at
\* step 0, not awaiting, retry count 0, and no browser action is executed.
C3_CancelResets ==
  \A c \in Conns :
    (/\ AwaitingTurn(c)
     /\ Says(c, CancelWords)
     /\ ~Says(c, Affirmatives)
     /\ ~Says(c, {<<"s","k","i","p">>})) =>
      /\ turn[c].state.demo = MkDemo(FALSE, 0, "", FALSE, 0)
      /\ turn[c].exec = NoExec
      /\ turn[c].calls = {}
      /\ turn[c].reply = "cancelled"

\* C3: "stop" at step 4 cancelled the demo.
C3_Witness ==
  /\ AwaitingTurn("c1")
  /\ turn["c1"].loaded.step = 4
  /\ turn["c1"].input = UserTexts.stop
  /\ ~turn["c1"].state.demo.is_active
  /\ turn["c1"].state.demo.step = 0
  /\ turn["c1"].exec = NoExec

\* C4: once the action of one step has failed twice in a row, the reply asks
\* the user to retry or skip and the retry counter is at least 2.
C4_AsksAfterTwoFailures ==
  \A c \in Conns :
    (TurnDone(c) /\ turn[c].exec.failed /\ streak[thread_id[c]].n >= 2) =>
      /\ turn[c].reply = "ask"
      /\ turn[c].state.demo.retry_count >= 2

\* C5: every persisted DemoState has its step in 0..6, and an inactive one
\* (made so by completing step 6 or by a cancel) is at step 0.
C5_StepInRange ==
  \A t \in Threads :
    LET demo == store[t].values.demo
    IN demo.present =>
         /\ demo.step \in 0..6
         /\ ~demo.is_active => demo.step = 0

\* Request r is between acquiring and releasing the page lock.
InCritical(r) == bpc[r] \in {"locked", "goto_done", "title"}

\* C6: at most one interactive operation is between acquiring and releasing
\* the lock, and every navigate that returns reports the URL and title of its
\* own navigation.
C6_PageLockExcludes ==
  /\ Cardinality({r \in Reqs : InCritical(r)}) <= 1
  /\ \A r \in Reqs :
       (bpc[r] = "done" /\ bReq[r].op = "navigate" /\ result[r].ok) =>
         /\ result[r].url = bReq[r].url
         /\ result[r].title = PageAt(bReq[r].url).title

\* C6: two navigate requests to different URLs, the second of which had to
\* wait for the lock, have both returned.
C6_Witness ==
  /\ bReq[1] = [op |-> "navigate", url |-> "u1"]
  /\ bReq[2] = [op |-> "navigate", url |-> "u2"]
  /\ bpc[1] = "done" /\ result[1].ok
  /\ bpc[2] = "done" /\ result[2].ok
  /\ result[2].waited

BgStarted(l) == bgpc[l] \notin {"none", "queued"}

\* C8: a created lead is returned with 201 and status new, exactly one
\* background sync is scheduled for it (none for a failed creation), and that
\* sync, its adapter calls and its notification come only after the response
\* has gone out.
C8_ResponseBeforeBackgroundSync ==
  \A l \in LeadIds :
    /\ scheduled[l] <= 1
    /\ resp[l].at \in {"returning", "sent"} =>
         /\ resp[l].code = 201
         /\ resp[l].status = "new"
         /\ leads[l].exists
         /\ scheduled[l] = 1
    /\ resp[l].at \in {"none", "error"} => scheduled[l] = 0 /\ ~leads[l].exists
    /\ (BgStarted(l) \/ bgCalls[l] > 0 \/ notified[l] > 0) => resp[l].at = "sent"

\* C8: a lead's background sync has called the adapter and sent the
\* notification, after the 201.
C8_Witness ==
  \E l \in LeadIds :
    /\ resp[l].at = "sent"
    /\ bgpc[l] = "done"
    /\ bgCalls[l] > 0
    /\ notified[l] = 1
    /\ scheduled[l] = 1

\* Each checkpoint of thread t is the child of the one written before it.
Linear(t) == \A i \in 1..Len(cpLog[t]) : cpLog[t][i] = i - 1

\* C9: every checkpoint write leaves the thread's earlier message list as a
\* prefix of the new one, and each thread's checkpoints form one chain.
C9_AppendOnlyLinear ==
  /\ [][\A t \in Threads :
          IsPrefix(store[t].values.messages, store'[t].values.messages)]_vars
  /\ [](\A t \in Threads : Linear(t))

\* C9: one thread holds the turns of both connections, appended in the order
\* they ran.
C9_Witness ==
  \E t \in Threads :
    /\ Len(store[t].values.messages) >= 4
    /\ \E i, j \in 1..Len(store[t].values.messages) :
         /\ store[t].values.messages[i].conn = "c1"
         /\ store[t].values.messages[j].conn = "c2"
    /\ Len(cpLog[t]) >= 6

\* C10: on a connection at most one message is being processed; it is read
\* only when every earlier one has been answered; replies leave in the order
\* of the messages; and a reply is sent only when the turn's last checkpoint
\* is persisted.
C10_OneTurnAtATime ==
  \A c \in Conns :
    /\ received[c] - Len(sent[c]) \in {0, 1}
    /\ pc[c] = "recv" => received[c] = Len(sent[c])
    /\ pc[c] \notin {"recv", "closed"} => turn[c].k = Len(sent[c]) + 1
    /\ \A i \in 1..Len(sent[c]) : sent[c][i] = i
    /\ (TurnDone(c) /\ checkpointer) =>
         \E i \in 1..Len(store[thread_id[c]].values.messages) :
           store[thread_id[c]].values.messages[i] = AIMessage(c, turn[c].k)

\* C10: the second message arrived while the first turn ran, and is still
\* unread when the first reply is about to be sent.
C10_Witness ==
  \E c \in Conns :
    /\ TurnDone(c)
    /\ turn[c].k = 1
    /\ Len(inbox[c]) = 1
    /\ received[c] = 1
\* The capability nodes of the graph.
CapabilityNodes == {"chat", "navigate", "enrich", "crm", "demo_workflow"}

\* The agent messages of connection c's current turn in its state.
TurnReplies(c) ==
  {i \in 1..Len(turn[c].state.messages) :
     turn[c].state.messages[i] = AIMessage(c, turn[c].k)}

\* C11: a turn whose graph run completes has run the router and then exactly
\* one of the five capability nodes, the one the routing hint names; that
\* node appended exactly one agent message, the last of the list and right
\* after the user's, and the text returned to the caller is that message's.
C11_RouterThenOneNode ==
  \A c \in Conns :
    /\ pc[c] = "node" => turn[c].trace = <<"router">>
    /\ TurnDone(c) =>
         LET msgs == turn[c].state.messages
             n == Len(msgs)
         IN /\ Len(turn[c].trace) = 2
            /\ turn[c].trace[1] = "router"
            /\ turn[c].trace[2] \in CapabilityNodes
            /\ turn[c].trace[2] = GraphNode(turn[c].state.next_action)
            /\ n >= 2
            /\ msgs[n - 1] = HumanMessage(c, turn[c].k)
            /\ TurnReplies(c) = {n}
            /\ turn[c].reply = turn[c].state.last_content
            /\ turn[c].reply \notin {"none", "no_response", "Error"}

\* C11: a turn routed to the navigate node returned that node's text, after
\* an earlier turn of the thread.
C11_Witness ==
  /\ TurnDone("c1")
  /\ turn["c1"].k = 2
  /\ turn["c1"].trace = <<"router", "navigate">>
  /\ turn["c1"].reply = "navigate"
  /\ Len(turn["c1"].state.messages) = 4

\* C12 as stated: every turn in which loading the checkpoint, the router, the
\* node or a checkpoint write failed ends with the text "Error: <message>".
C12_EveryFailureIsErrorText ==
  \A c \in Conns :
    (pc[c] = "send" /\ (turn[c].probe = "failed" \/ turn[c].raised # "none")) =>
      turn[c].reply = "Error"

\* C12: an exception of the graph run never leaves invoke_graph: the call
\* returns the text "Error: <message>", the handler sends it like any reply,
\* the socket stays open and the handler goes back to reading the next frame;
\* a failure of invoke_graph's own get_state does not end the turn, which
\* runs its node and returns that node's text.
C12_ErrorTextNotException ==
  /\ [](\A c \in Conns :
         /\ c \in env.conns => pc[c] # "closed"
         /\ turn[c].raised # "none" =>
              /\ pc[c] = "send"
              /\ turn[c].reply = "Error"
              /\ loop # c
         /\ (turn[c].probe = "failed" /\ TurnDone(c)) =>
              /\ turn[c].trace[2] \in CapabilityNodes
              /\ turn[c].reply # "Error")
  /\ [][\A c \in Conns :
         (pc[c] = "send" /\ pc'[c] # "send") =>
           /\ pc'[c] = "recv"
           /\ sent'[c] = Append(sent[c], turn[c].k)]_vars

\* C12: the first turn failed after its input checkpoint was written, its
\* error text was sent, and the second turn has run to its reply.
C12_Witness ==
  /\ TurnDone("c1")
  /\ turn["c1"].k = 2
  /\ sent["c1"] = <<1>>
  /\ turn["c1"].state.messages =
       <<HumanMessage("c1", 1), HumanMessage("c1", 2), AIMessage("c1", 2)>>
\* The classifier's answer of this run, and its word as the router reads it.
Answer == CHOOSE a \in env.llm : TRUE
AnswerWord == Lower(Strip(Answer.content))

\* C13: when the demo the router finds is not active, its hint is one of
\* navigate, enrich, crm, chat, demo; it is chat, without a classifier call,
\* for an empty message list and for a newest message that is not the
\* user's; and it is chat when the classifier call fails or answers a word
\* outside start_demo, navigate, enrich, crm, chat.
C13_RouterHintIsACapability ==
  \A c \in Conns :
    LET st == turn[c].state
        msgs == st.messages
    IN (pc[c] = "node" /\ ~(turn[c].loaded.present /\ turn[c].loaded.is_active)) =>
         /\ st.next_action \in {"navigate", "enrich", "crm", "chat", "demo"}
         /\ msgs = <<>> => st.next_action = "chat" /\ ~turn[c].classified
         /\ (msgs # <<>> /\ msgs[Len(msgs)].type # "human") =>
              st.next_action = "chat" /\ ~turn[c].classified
         /\ (turn[c].classified /\ ~Answer.ok) => st.next_action = "chat"
         /\ (/\ turn[c].classified
             /\ Answer.ok
             /\ AnswerWord \notin {Intents.start_demo, Intents.navigate, Intents.enrich, Intents.crm, Intents.chat}) =>
              st.next_action = "chat"
         /\ st.next_action = "demo" =>
              turn[c].classified /\ Answer.ok /\ AnswerWord = Intents.start_demo

\* C13: a whole sentence from the classifier, on a user's message with no
\* demo, was routed to chat.
C13_Witness ==
  /\ pc["c1"] = "node"
  /\ ~turn["c1"].loaded.present
  /\ turn["c1"].classified
  /\ Answer.ok
  /\ Answer.content = LlmTexts.sentence
  /\ turn["c1"].state.next_action = "chat"
\* C14: with no adapter configured, a sync request for an existing lead is
\* answered with HTTP 200, success false and the no-provider message; the
\* request creates no contact, makes no adapter call and leaves every lead's
\* row as it was; and no sync request is ever answered otherwise.
C14_SyncWithoutProvider ==
  /\ [][\A l \in LeadIds :
         (crmProvider = "none" /\ syncResp'[l] # syncResp[l]) =>
           /\ leads[l].exists
           /\ syncResp'[l] = [code |-> 200, success |-> FALSE, message |-> "no_provider"]
           /\ leads' = leads
           /\ created' = created
           /\ bgCalls' = bgCalls]_vars
  /\ [](crmProvider = "none" =>
         \A l \in LeadIds :
           /\ syncResp[l].message \in {"none", "no_provider"}
           /\ created[l] = 0
           /\ bgCalls[l] = 0
           /\ leads[l].exists =>
                /\ leads[l].status = "new"
                /\ leads[l].external_id = 0
                /\ ~leads[l].synced
                /\ leads[l].sync_error = 0)

\* C14: with no adapter, a lead with an email was created and its sync was
\* requested and answered.
C14_Witness ==
  \E l \in LeadIds :
    /\ crmProvider = "none"
    /\ HasColumn("sync_error")
    /\ syncResp[l] = [code |-> 200, success |-> FALSE, message |-> "no_provider"]
    /\ leads[l] = NewLead([name |-> "n1", has_email |-> TRUE, known |-> FALSE])
\* C15: a GET of a lead that was created and neither patched nor deleted
\* since returns 200 with the name and email that were posted and status
\* new; a GET of a lead that was patched returns its stored values; and once
\* a DELETE of the lead has been answered 204, every GET of its id returns
\* 404.
C15_GetAfterCreateAndDelete ==
  [][\A l \in LeadIds :
       (readResp = NoRead /\ readResp'.op = "get" /\ readResp'.lead = l) =>
         /\ resp[l].code = 201
         /\ leadLog[l].deleted => readResp'.code = 404
         /\ ~leadLog[l].deleted =>
              /\ readResp'.code = 200
              /\ readResp'.name = leads[l].name
              /\ readResp'.has_email = leads[l].has_email
              /\ readResp'.status = leads[l].status
         /\ (~leadLog[l].deleted /\ leadLog[l].patches = 0) =>
              /\ readResp'.name = resp[l].name
              /\ readResp'.has_email = resp[l].has_email
              /\ readResp'.status = "new"]_vars

\* C15: the second lead was created with an email, and deleted; a GET of its
\* id is answered 404 while the first lead is still stored.
C15_Witness ==
  /\ readResp = [op |-> "get", lead |-> 2, code |-> 404]
  /\ resp[2].code = 201 /\ resp[2].has_email
  /\ leadLog[2].deleted
  /\ leads[1].exists

\* The stored leads whose status is X.
WithStatus(X) == {l \in LeadIds : leads[l].exists /\ leads[l].status = X}

\* C16: GET /leads?status=X answers with stored leads of status X only,
\* each once, newest first, and with every lead of status X that falls in
\* the window: the ones with at least `skip` and fewer than `skip + limit`
\* newer leads of that status.
C16_StatusFilterExact ==
  [][(readResp = NoRead /\ readResp'.op = "list" /\ readResp'.status # "any"
        /\ readResp'.synced = "any") =>
       LET r == readResp'
           match == WithStatus(r.status)
           newer(l) == Cardinality({k \in match : k > l})
       IN /\ \A i \in DOMAIN r.rows : r.rows[i] \in match
          /\ \A i, j \in DOMAIN r.rows : i < j => r.rows[i] > r.rows[j]
          /\ \A l \in match :
               (\E i \in DOMAIN r.rows : r.rows[i] = l) <=>
                 (r.skip <= newer(l) /\ newer(l) < r.skip + r.limit)]_vars

\* C16: of two stored leads the second was set to contacted, and the list of
\* contacted leads holds it alone.
C16_Witness ==
  /\ readResp = [op |-> "list", status |-> "contacted", synced |-> "any",
                 skip |-> 0, limit |-> 100, code |-> 200, rows |-> <<2>>]
  /\ leads[1].exists /\ leads[1].status = "new"
  /\ leads[2].exists /\ leads[2].status = "contacted"
  /\ leadLog[2].patches = 1
\* A GET /me that is answered in this step.
MeAnswered == authResp = NoAuthResp /\ authResp'.op = "me"

\* C17: a token issued for a user verifies to that user's id while fewer
\* than 24 hours have passed since it was issued; a token whose signature
\* was altered, one that is more than 24 hours old, and one without a
\* subject verify to no identity; the request is answered either way.
C17_VerifyToken ==
  [][(MeAnswered /\ authResp'.token # NoToken) =>
       LET t == authResp'.token
       IN /\ (t \in issued /\ now < t.iat + 24) => authResp'.identity = t.sub
          /\ (t.sig # "secret" \/ now > t.iat + 24 \/ t.sub = Nobody) =>
               authResp'.identity = Nobody
          /\ authResp'.code \in {200, 401}]_vars

\* C17: a token that was issued more than 24 hours ago is presented and
\* verifies to no identity.
C17_Witness ==
  /\ authResp.op = "me"
  /\ authResp.token \in issued
  /\ now > authResp.token.iat + 24
  /\ authResp.identity = Nobody

\* The profile of the user with id u, as GET /me shows it.
Profile(u) == [id |-> u, email |-> users[u].email, name |-> users[u].name]

\* C18: GET /me answers 200 with a profile only to a token that carries the
\* service's signature, has not expired and names a stored user, and the
\* profile is that user's; without a token, with an altered or expired
\* token, or with a subject that no user has, it answers 401 with no user
\* data.
C18_MeNeedsValidUser ==
  [][MeAnswered =>
       LET r == authResp'
           t == r.token
       IN /\ r.code \in {200, 401}
          /\ r.code = 200 =>
               /\ t # NoToken /\ t.sig = "secret" /\ now <= t.exp
               /\ t.sub \in 1..Len(users)
               /\ r.user = Profile(t.sub)
          /\ (t = NoToken \/ t.sig # "secret" \/ now > t.exp
                \/ t.sub \notin 1..Len(users)) =>
               r.code = 401 /\ r.user = NoUser]_vars

\* C18: with a user registered, a token that carries the service's signature
\* and names an id that no user has is answered 401.
C18_Witness ==
  /\ authResp.op = "me"
  /\ authResp.code = 401
  /\ authResp.token.sig = "secret"
  /\ authResp.token.sub = Len(users) + 1
  /\ Len(users) > 0

\* C19: no two users share an email, and a registration of an email that a
\* user already has fails, adds no user, issues no token and leaves every
\* row as it was.
C19_RegisterKeepsEmailsUnique ==
  /\ [](\A i, j \in 1..Len(users) : users[i].email = users[j].email => i = j)
  /\ [][(authResp = NoAuthResp /\ authResp'.op = "register"
           /\ \E i \in 1..Len(users) : users[i].email = authResp'.email) =>
          /\ authResp'.code >= 400
          /\ authResp'.token = NoToken
          /\ users' = users
          /\ issued' = issued]_vars

\* C19: the email of the first user was registered again, with the second
\* user stored by then, and the answer is a failure.
C19_Witness ==
  /\ authResp.op = "register"
  /\ authResp.code = 400
  /\ Len(users) = 2
  /\ authResp.email = users[1].email
  /\ users[1].password_hash = hash_password("p2")

\* C20: a connection that presents a token with the service's signature,
\* not yet expired, whose subject is a stored user u is bound to the thread
\* user_<u> with u's context; a connection without a token, with an altered
\* or expired token, or with a subject that no user has is accepted and
\* bound, without user context, to a thread that no connection has and
\* that holds no checkpoint; an open connection keeps its thread and its
\* context, and every message of a thread is of a connection bound to it.
C20_ThreadBinding ==
  /\ [][\A c \in Conns :
          (pc[c] = "closed" /\ (pc'[c] # "closed" \/ wsToken'[c] # wsToken[c])) =>
            LET t == wsToken'[c]
                u == t.sub
            IN /\ pc'[c] = "recv"
               /\ (t # NoToken /\ t.sig = "secret" /\ now < t.exp
                     /\ u \in 1..Len(users)) =>
                    /\ thread_id'[c] = UserThread(u)
                    /\ user_context'[c] = Profile(u)
               /\ (t = NoToken \/ t.sig # "secret" \/ now > t.exp
                     \/ u \notin 1..Len(users)) =>
                    /\ user_context'[c] = NoUser
                    /\ thread_id'[c] \notin {UserThread(v) : v \in 1..MaxUsers}
                    /\ \A d \in Conns \ {c} : thread_id'[c] # thread_id[d]
                    /\ store[thread_id'[c]] = EmptyCheckpoint]_vars
  /\ [][\A c \in Conns :
          pc[c] # "closed" =>
            /\ thread_id'[c] = thread_id[c]
            /\ user_context'[c] = user_context[c]]_vars
  /\ [](\A t \in AllThreads :
          \A i \in 1..Len(store[t].values.messages) :
            thread_id[store[t].values.messages[i].conn] = t)

\* C20: one connection is bound to its user's thread and has had a reply on
\* it, and the other, which presented an expired token of that user, is a
\* guest that has had a reply on a thread of its own.
C20_Witness ==
  \E c, d \in Conns :
    /\ user_context[c] # NoUser
    /\ thread_id[c] = UserThread(user_context[c].id)
    /\ Len(sent[c]) > 0
    /\ wsToken[d] \in issued
    /\ wsToken[d].exp < now
    /\ user_context[d] = NoUser
    /\ thread_id[d] = GuestThread(1)
    /\ Len(sent[d]) > 0
    /\ Len(store[thread_id[d]].values.messages) = 2
\* The companies with seeded results, in the order of the seed: the name,
\* the title of the first result, the number of results.
SeededCompanies ==
  << [name |-> <<"o","p","e","n","a","i">>, title |-> "OpenAI - Official Website", n |-> 2],
     [name |-> <<"m","i","c","r","o","s","o","f","t">>, title |-> "Microsoft Corporation", n |-> 1],
     [name |-> <<"g","o","o","g","l","e">>, title |-> "Google - About", n |-> 1] >>

\* C21: every request to POST /enrich is answered 200 with a result list that
\* is not empty; when the live search is not available, raises or yields
\* nothing, the results are the seeded ones of the first seeded company
\* whose name is in the lower-cased query, and when there is none, the one
\* generic result that links to a search for the query.
C21_EnrichFallback ==
  enrich.code # 0 =>
    LET o == enrich.outcome
        known == {i \in 1..Len(SeededCompanies) :
                    Contains(Lower(enrich.query), SeededCompanies[i].name)}
    IN /\ enrich.code = 200
       /\ Len(enrich.results) > 0
       /\ (~o.installed \/ o.raised \/ o.hits = 0) =>
            IF known # {}
              THEN LET c == SeededCompanies[CHOOSE i \in known : \A j \in known : i <= j]
                   IN /\ Len(enrich.results) = c.n
                      /\ enrich.results[1].title = c.title
              ELSE /\ Len(enrich.results) = 1
                   /\ enrich.results[1].title = "Search results for"
                   /\ enrich.results[1].about = enrich.query

\* C21: the live search yielded two hits and raised, the query names Google
\* and OpenAI, and the answer is the seeded entry of OpenAI.
C21_Witness ==
  /\ enrich.query = <<"G","o","o","g","l","e"," ","v","s"," ","O","p","e","n","A","I">>
  /\ enrich.outcome = [installed |-> TRUE, hits |-> 2, raised |-> TRUE]
  /\ Len(enrich.results) = 2
  /\ enrich.results[1].title = "OpenAI - Official Website"
\* The tokens that have the shape of an email address.
EmailShaped == {LeadTokens.email, LeadTokens.other}

\* The value save_lead gave a field, if it gave one.
Field(f) ==
  IF f \in DOMAIN toolCall.lead_data THEN <<toolCall.lead_data[f]>> ELSE <<>>

\* The first of the tokens t whose place is in S, if there is one.
FirstOf(S, t) ==
  IF S = {} THEN <<>> ELSE <<t[CHOOSE i \in S : \A j \in S : i <= j]>>

\* C22 as stated: the first token is the name, the first email-shaped token
\* among the others is the email, the first of the remaining tokens that is
\* not email-shaped is the company and the next such token the summary, and
\* no other field is set.
C22_FieldsByShape ==
  toolCall.at \in {"posting", "done"} =>
    LET t == toolCall.tokens
        E == {i \in 2..Len(t) : t[i] \in EmailShaped}
        N == {i \in 2..Len(t) : t[i] \notin EmailShaped}
        C == {i \in N : \A j \in N : i <= j}
    IN /\ DOMAIN toolCall.lead_data \subseteq {"name", "email", "company", "summary"}
       /\ Field("name") = <<t[1]>>
       /\ Field("email") = FirstOf(E, t)
       /\ Field("company") = FirstOf(N, t)
       /\ Field("summary") = FirstOf(N \ C, t)

\* C22: the first token is the name.  With four or more tokens of which none
\* after the first contains "@", the second, third and fourth tokens are the
\* email, the company and the summary.  Otherwise the email is the first
\* later token that contains "@", email-shaped or not; the company is the
\* first other token that is not email-shaped; the summary is the first
\* token left that is email-shaped or comes after the company.  No other
\* field is set.
C22_FieldsAsDetected ==
  toolCall.at \in {"posting", "done"} =>
    LET t == toolCall.tokens
        A == {i \in 2..Len(t) : \E k \in 1..Len(t[i]) : t[i][k] = "@"}
        e == {i \in A : \A j \in A : i <= j}
        N == {i \in (2..Len(t)) \ e : t[i] \notin EmailShaped}
        c == {i \in N : \A j \in N : i <= j}
        S == {i \in (2..Len(t)) \ (e \cup c) :
                t[i] \in EmailShaped \/ \E j \in c : j < i}
    IN /\ DOMAIN toolCall.lead_data \subseteq {"name", "email", "company", "summary"}
       /\ Field("name") = <<t[1]>>
       /\ IF Len(t) >= 4 /\ A = {}
            THEN /\ Field("email") = <<t[2]>>
                 /\ Field("company") = <<t[3]>>
                 /\ Field("summary") = <<t[4]>>
            ELSE /\ Field("email") = FirstOf(e, t)
                 /\ Field("company") = FirstOf(c, t)
                 /\ Field("summary") = FirstOf(S, t)

\* C22: 'Jane Doe|jane@acme.com|Acme|Interested in enterprise' was parsed
\* into its four fields and posted.
C22_Witness ==
  /\ toolCall.at = "done"
  /\ toolCall.reply = "saved"
  /\ toolCall.input_str = LeadTokens.name \o <<"|">> \o LeadTokens.email \o <<"|">>
                             \o LeadTokens.company \o <<"|">> \o LeadTokens.summary
  /\ toolCall.lead_data = [name |-> LeadTokens.name, email |-> LeadTokens.email,
                           company |-> LeadTokens.company,
                           summary |-> LeadTokens.summary]
\* C23: a turn whose action failed for the first time leaves the demo on the
\* step of that action, awaiting confirmation; and when the user then
\* confirms, the turn executes the action of that same step again, as a
\* retry attempt, and not the action of the step after it.
C23_ConfirmRetriesFailedStep ==
  \A c \in Conns :
    /\ (TurnDone(c) /\ turn[c].exec.failed /\ turn[c].exec.attempt = 0) =>
         turn[c].state.demo = MkDemo(TRUE, turn[c].exec.step, "youtube", TRUE, 1)
    /\ (AwaitingTurn(c) /\ turn[c].loaded.retry_count = 1
          /\ Says(c, Affirmatives)) =>
         /\ turn[c].exec.step = turn[c].loaded.step
         /\ turn[c].exec.action = StepInfo(turn[c].loaded.step).action
         /\ turn[c].exec.attempt >= 1
\* The interrupt commands.
InterruptCommands ==
  {<<"p","a","u","s","e">>,
   <<"s","t","o","p"," ","v","i","d","e","o">>,
   <<"p","a","u","s","e"," ","v","i","d","e","o">>,
   <<"h","o","l","d">>,
   <<"p","l","a","y">>,
   <<"r","e","s","u","m","e">>,
   <<"u","n","p","a","u","s","e">>,
   <<"c","o","n","t","i","n","u","e"," ","v","i","d","e","o">>}

\* C24: a turn that starts from an active demo awaiting confirmation and
\* whose message is an interrupt command asks the browser for the video
\* state and leaves the DemoState as it found it: active flag, step, awaiting
\* flag and retry count are those the turn loaded.
C24_InterruptKeepsDemoState ==
  \A c \in Conns :
    (AwaitingTurn(c) /\ turn[c].input \in InterruptCommands) =>
      /\ turn[c].state.demo = turn[c].loaded
      /\ turn[c].exec = NoExec
      /\ "get-video-state" \in turn[c].calls
C30_LinkageIsReadBack ==
  [][/\ \A l \in LeadIds :
          /\ leads'[l].synced => leads'[l].external_id # 0
          /\ (~leads[l].synced /\ leads'[l].synced) => leads'[l].sync_error = 0
     /\ (readResp = NoRead /\ readResp'.op = "get" /\ readResp'.code = 200) =>
          LET row == leads[readResp'.lead]
          IN /\ readResp'.external_id = row.external_id
             /\ readResp'.synced = row.synced
             /\ readResp'.sync_error = row.sync_error
     /\ (/\ readResp = NoRead /\ readResp'.op = "list"
         /\ readResp'.synced = "true" /\ readResp'.status = "any"
         /\ readResp'.skip = 0 /\ readResp'.limit = 100) =>
          /\ readResp'.code = 200
          /\ readResp'.rows =
               by_created_desc({l \in LeadIds : leads[l].exists /\ leads[l].synced})]_vars
\* The turn of connection c is between its checkpoint load and its last
\* checkpoint save.
InTurn(c) == pc[c] \in {"invoke", "route", "node"}

\* C28: turns of connections on different threads can run in parallel:
\* while the turn of one connection is in progress, a frame that waits on a
\* connection of another thread can be taken up, so that a second turn
\* starts before the first has finished.
C28_OtherThreadNotBlocked ==
  \A a, b \in Conns :
    (/\ thread_id[a] # thread_id[b]
     /\ InTurn(a)
     /\ pc[b] = "recv" /\ inbox[b] # <<>>) => ENABLED Receive(b)

\* C29: at most one connection is between checkpoint load and checkpoint
\* save, and it is the one the event loop runs; a turn starts from the
\* checkpoint the turn before it on that thread saved; and with the
\* checkpointer on, the history of a thread holds the user message and the
\* reply of every turn answered on a connection bound to it, and the user
\* message of a turn in progress, each once, also when two connections share
\* the thread.
C29_SharedThreadSerialized ==
  /\ \A a, b \in Conns : (InTurn(a) /\ InTurn(b)) => a = b
  /\ \A c \in Conns : InTurn(c) <=> loop = c
  /\ checkpointer =>
       \A c \in Conns :
         LET history == store[thread_id[c]].values.messages
             holds(m) == \E i \in 1..Len(history) : history[i] = m
         IN /\ \A k \in 1..Len(sent[c]) :
                 holds(HumanMessage(c, k)) /\ holds(AIMessage(c, k))
            /\ pc[c] \in {"route", "node", "send"} =>
                 holds(HumanMessage(c, turn[c].k))
            /\ TurnDone(c) => holds(AIMessage(c, turn[c].k))
            /\ Len(history) =
                 Cardinality({m \in {history[i] : i \in 1..Len(history)} : TRUE})

\* C29: two connections share a thread; the first turn of c2 was answered,
\* the first turn of c1 is in progress on top of it, and the second frame of
\* c2 waits.
C29_Witness ==
  /\ checkpointer
  /\ thread_id["c1"] = thread_id["c2"]
  /\ Len(sent["c2"]) = 1
  /\ pc["c1"] = "node"
  /\ pc["c2"] = "recv" /\ inbox["c2"] # <<>>
  /\ \E i \in 1..Len(turn["c1"].state.messages) :
       turn["c1"].state.messages[i] = AIMessage("c2", 1)
C34_InvalidStatusRejected ==
  [][\A l \in LeadIds :
       (/\ readResp'.op = "patch"
        /\ readResp # readResp'
        /\ readResp'.lead = l
        /\ readResp'.sent.status \notin StatusValues \cup {"unset"}) =>
         /\ readResp'.code \in 400..499
         /\ leads' = leads]_vars

\* The number of times node n ran in a trace.
Runs(trace, n) == Cardinality({i \in 1..Len(trace) : trace[i] = n})

\* C35: a turn that starts and ends with the demo active never ends on a
\* lower step than it started on, and a turn runs the demo node at most once
\* and executes at most one step's action: that of the step it started on
\* or of the next.
C35_StepNeverDecreases ==
  \A c \in Conns :
    TurnDone(c) =>
      /\ Runs(turn[c].trace, "demo_workflow") <= 1
      /\ (turn[c].loaded.is_active /\ turn[c].state.demo.is_active) =>
           turn[c].state.demo.step >= turn[c].loaded.step
      /\ (turn[c].loaded.is_active /\ turn[c].exec # NoExec) =>
           /\ turn[c].exec.step \in {turn[c].loaded.step, turn[c].loaded.step + 1}
           /\ turn[c].exec.action = StepInfo(turn[c].exec.step).action
      /\ ~turn[c].loaded.is_active => turn[c].exec = NoExec

\* A confirmed turn took the demo from step 4 to step 5 and ran step 5's
\* action.
C35_Witness ==
  /\ TurnDone("c1")
  /\ turn["c1"].loaded.is_active
  /\ turn["c1"].loaded.step = 4
  /\ turn["c1"].exec.step = 5
  /\ turn["c1"].state.demo.is_active
  /\ turn["c1"].state.demo.step = 6

C37_LockReleasedOnEveryExit ==
  /\ [](\A r \in Reqs :
          /\ lockHolder = r <=> InCritical(r)
          /\ bpc[r] = "done" => lockHolder # r
          /\ bpc[r] = "waiting" <=> \E i \in 1..Len(waiters) : waiters[i] = r)
  /\ [][(lockHolder = NoReq /\ waiters # <<>> /\ lockHolder' # NoReq) =>
          lockHolder' = Head(waiters)]_vars
  /\ \A r \in Reqs : (bpc[r] = "waiting") ~> (bpc[r] = "locked")

\* An operation that raised has ended, and the operation that waited for it
\* holds the lock.
C37_Witness ==
  \E r \in Reqs, w \in Reqs :
    /\ bpc[r] = "done"
    /\ bReq[r].op # "get_frame"
    /\ ~result[r].ok
    /\ ~result[r].waited
    /\ result[w].waited
    /\ bpc[w] = "locked"
    /\ lockHolder = w

\* Lead l's sync fields are the same before and after the step.
SyncFieldsKept(l) ==
  /\ leads'[l].external_id = leads[l].external_id
  /\ leads'[l].synced = leads[l].synced
  /\ leads'[l].sync_error = leads[l].sync_error

\* C38: a PATCH changes, of the lead it names, only the fields its body
\* supplies (name and status here; the email stays) and never external_id,
\* synced_at or sync_error, and it changes no other lead; the sync fields of
\* a stored lead change only in a step of the manual sync, of sync-all or of
\* the background sync.
C38_PatchWritesOnlySuppliedFields ==
  [][\A l \in LeadIds :
       /\ (readResp'.op = "patch" /\ readResp' # readResp /\ readResp'.lead = l) =>
            /\ SyncFieldsKept(l)
            /\ leads'[l].has_email = leads[l].has_email
            /\ leads'[l].known = leads[l].known
            /\ leads'[l].exists
            /\ readResp'.sent.name = "unset" => leads'[l].name = leads[l].name
            /\ readResp'.sent.status = "unset" => leads'[l].status = leads[l].status
            /\ readResp'.code = 200 =>
                 /\ readResp'.sent.name # "unset" => leads'[l].name = readResp'.sent.name
                 /\ readResp'.sent.status # "unset" =>
                      leads'[l].status = readResp'.sent.status
            /\ \A k \in LeadIds \ {l} : leads'[k] = leads[k]
       /\ (leads[l].exists /\ ~SyncFieldsKept(l)) =>
            \/ syncs' = syncs + 1
            \/ bgpc'[l] # bgpc[l]]_vars

\* A linked lead was renamed by a PATCH that supplied only the name: it
\* keeps its status and its link.
C38_Witness ==
  \E l \in Stored :
    /\ readResp = [op |-> "patch", lead |-> l,
                   sent |-> [name |-> "n4", status |-> "unset"], code |-> 200]
    /\ leads[l].name = "n4"
    /\ leads[l].status = "new"
    /\ leads[l].external_id # 0
    /\ leads[l].synced

\* The call in hand guesses: with `guessing` it has tried selectors of its
\* list in order with 500 ms each, every one before the last failed, none
\* was tried after a success, and it has ended either with the success text
\* of its last attempt or, every selector of the list having failed, with
\* the not-found text.
FirstSuccessWins(guessing) ==
  (toolCall.at \in {"running", "done"} /\ guessing) =>
    LET list == IF toolCall.tool = "type" THEN common_selectors
                ELSE search_selectors
        tried == toolCall.tried
        n == Len(tried)
    IN /\ n <= Len(list)
       /\ \A i \in 1..n : tried[i].selector = list[i] /\ tried[i].timeout = 500
       /\ \A i \in 1..(n - 1) : tried[i].outcome # "ok"
       /\ toolCall.at = "running" => \A i \in 1..n : tried[i].outcome # "ok"
       /\ toolCall.at = "done" =>
            /\ n >= 1
            /\ IF tried[n].outcome = "ok"
                 THEN toolCall.reply = tool_result(toolCall.tool, "ok")
                 ELSE /\ n = Len(list)
                      /\ toolCall.reply = SmartTexts.could_not_find

\* The target, stripped of blanks and quotes at its ends, mentions search and
\* has none of the characters that make _smart_click use it as a selector.
ClickOnSearch ==
  /\ toolCall.tool = "click"
  /\ Contains(Lower(toolCall.input), SmartTexts.search)
  /\ \A i \in 1..Len(toolCall.plan.input_str) :
       toolCall.plan.input_str[i] \notin {"#", ".", "[", "]", ">", " "}

TypeWithoutSelector ==
  toolCall.tool = "type" /\ ~Contains(toolCall.input, <<"|">>)

\* C39: a smart Type without a selector and a smart Click on a search target
\* try their lists in order with 500 ms timeouts, return the first success,
\* try nothing after it, and report not-found only after the whole list
\* failed.
C39_FirstSuccessWins == FirstSuccessWins(TypeWithoutSelector \/ ClickOnSearch)

\* A click on 'Search' ended with the success of the third selector after
\* two failures, the rest of the list untried.
C39_Witness ==
  /\ toolCall.at = "done"
  /\ toolCall.tool = "click"
  /\ toolCall.input = SmartTexts.quoted_search
  /\ Len(toolCall.tried) = 3
  /\ toolCall.tried[1].outcome = "error"
  /\ toolCall.tried[2].outcome = "failed"
  /\ toolCall.tried[3].outcome = "ok"
  /\ toolCall.tried[3].selector = "input[type=\"submit\"]"
  /\ toolCall.reply = SmartTexts.success_clicked

===========================================================================
